---------------------------- MODULE Spec2Model ----------------------------
(***************************************************************************)
(* A model of the FastMath single-precision approximation library          *)
(* (fast_math.cpp / fast_math.hpp) and of the precision tests that state   *)
(* its contracts.                                                          *)
(*                                                                         *)
(* A C++ float is modelled by its IEEE-754 binary32 bit pattern, kept as   *)
(* a sign-magnitude integer: |f| is the 31-bit word made of the 8-bit      *)
(* biased exponent and the 23-bit fraction, and the integer's sign is the  *)
(* float's sign.  On finite floats the integer order is the float order.   *)
(* -0.0 is folded into +0.0: the library only ever compares zeros with     *)
(* ==, <, <=, which do not tell them apart.  Arithmetic is round to        *)
(* nearest, ties to even, computed on the exact result, operation by       *)
(* operation as the source writes it (no fused multiply-add).              *)
(* The arithmetic and the functions built on it are TLA+ functions of the  *)
(* bit patterns, so that an operand is one value wherever it is used.      *)
(***************************************************************************)
EXTENDS Integers, Sequences, FiniteSets, TLC

(***************************************************************************)
(* IEEE-754 binary32                                                       *)
(***************************************************************************)

\* the bit pattern of +Infinity, 0x7F800000
InfBits == 255 * 2^23

\* the bit pattern of the quiet NaN, 0x7FC00000
NaNBits == 511 * 2^22

\* 2^23: the hidden bit of a normal float's significand
HiddenBit == 2^23

Abs[n \in Int] == IF n < 0 THEN -n ELSE n

Max[a \in Int, b \in Int] == IF a >= b THEN a ELSE b

Sign[f \in Int] == IF f < 0 THEN -1 ELSE 1

Mag[f \in Int] == Abs[f]

IsNaN[f \in Int] == Mag[f] > InfBits

IsInf[f \in Int] == Mag[f] = InfBits

IsFinite[f \in Int] == Mag[f] < InfBits

\* the biased exponent field, bits 23..30
ExpField[f \in Int] == Mag[f] \div HiddenBit

\* the fraction field, bits 0..22
Frac[f \in Int] == Mag[f] % HiddenBit

\* the significand as an integer, and the exponent of its last bit:
\* |f| = Mant(f) * 2^LsbExp(f)
Mant[f \in Int] == IF ExpField[f] = 0 THEN Frac[f] ELSE Frac[f] + HiddenBit

LsbExp[f \in Int] == IF ExpField[f] = 0 THEN -149 ELSE ExpField[f] - 150

\* the number of bits of m
BitLen[m \in Int] == IF m < 2 THEN m ELSE 1 + BitLen[m \div 2]

\* Rounding of sign * m * 2^e to the nearest float, ties to even.  m < 2^31
\* is exact, or carries a sticky last bit under at least 26 significant bits.
\* Pack puts the rounded significand q under the exponent field em1 (q carries
\* the hidden bit of a normal float, which adds 1 to the field).
Pack[sign \in Int, em1 \in Int, q \in Int] ==
  IF em1 >= 254 \/ em1 * HiddenBit + q >= InfBits THEN sign * InfBits
  ELSE sign * (em1 * HiddenBit + q)

\* m with its last sh bits rounded away, to nearest and ties to even
RoundShift[m \in Int, sh \in Int] ==
  IF sh <= 0 THEN m * 2^(-sh)
  ELSE LET q0 == m \div 2^sh
           rem == m % 2^sh
           half == 2^(sh - 1)
       IN IF rem > half \/ (rem = half /\ q0 % 2 = 1) THEN q0 + 1 ELSE q0

\* RoundPack for an m of L bits, sh of which are rounded away
RoundAt[sign \in Int, e \in Int, m \in Int, L \in Int, sh \in Int] ==
  IF sh > L THEN 0 ELSE Pack[sign, e + sh + 149, RoundShift[m, sh]]

RoundPack[sign \in Int, e \in Int, m \in Int] ==
  IF m = 0 THEN 0
  ELSE RoundAt[sign, e, m, BitLen[m], Max[BitLen[m] - 24, -149 - e]]

\* the significand shifted so that its hidden bit is set (a subnormal's is not)
NormShift[f \in Int] == 24 - BitLen[Mant[f]]

NormMant[f \in Int] == Mant[f] * 2^NormShift[f]

NormExp[f \in Int] == LsbExp[f] - NormShift[f]

FNeg[f \in Int] == -f

FAbs[f \in Int] == Mag[f]

\* comparisons; every comparison with a NaN is false
FLt[a \in Int, b \in Int] == ~IsNaN[a] /\ ~IsNaN[b] /\ a < b

FLe[a \in Int, b \in Int] == ~IsNaN[a] /\ ~IsNaN[b] /\ a <= b

FGt[a \in Int, b \in Int] == FLt[b, a]

FGe[a \in Int, b \in Int] == FLe[b, a]

FEq[a \in Int, b \in Int] == ~IsNaN[a] /\ ~IsNaN[b] /\ a = b

\* m shifted right by d bits, a lost 1 bit kept in the last bit
ShiftRightJam[m \in Int, d \in Int] ==
  IF d = 0 THEN m
  ELSE IF d >= 31 THEN (IF m = 0 THEN 0 ELSE 1)
  ELSE LET q == m \div 2^d
       IN IF m % 2^d = 0 THEN q ELSE (q - (q % 2)) + 1

\* x + y for finite nonzero x and y, x the one of the larger magnitude: the
\* significands aligned under 6 more bits, added or subtracted, and rounded
AddAligned[x \in Int, y \in Int] ==
  RoundPack[Sign[x], LsbExp[x] - 6,
            Mant[x] * 64 + (Sign[x] * Sign[y])
                           * ShiftRightJam[Mant[y] * 64, LsbExp[x] - LsbExp[y]]]

\* a + b
FAdd[a \in Int, b \in Int] ==
  IF IsNaN[a] \/ IsNaN[b] THEN NaNBits
  ELSE IF IsInf[a] THEN (IF IsInf[b] /\ Sign[a] # Sign[b] THEN NaNBits ELSE a)
  ELSE IF IsInf[b] THEN b
  ELSE IF a = 0 THEN b
  ELSE IF b = 0 THEN a
  ELSE IF Mag[a] >= Mag[b] THEN AddAligned[a, b]
  ELSE AddAligned[b, a]

\* a - b
FSub[a \in Int, b \in Int] == FAdd[a, FNeg[b]]

\* m, a lost 1 bit kept in its last bit
Jam[m \in Int, lost \in BOOLEAN] == IF lost THEN (m - (m % 2)) + 1 ELSE m

\* the upper 30 bits of the 48-bit number hi * 2^24 + lo, lo < 2^24
MulUpper[hi \in Int, lo \in Int] ==
  Jam[hi * 64 + lo \div 262144, lo % 262144 # 0]

\* the same of hh * 2^24 + mid * 2^12 + ll
MulJoin[hh \in Int, mid \in Int, ll \in Int] ==
  MulUpper[hh + mid \div 4096 + (ll + (mid % 4096) * 4096) \div 16777216,
           (ll + (mid % 4096) * 4096) % 16777216]

\* the upper 30 bits of the 48-bit product of two 24-bit significands, built
\* from 12-bit halves, a lost 1 bit kept in the last bit
MulMant[ma \in Int, mb \in Int] ==
  MulJoin[(ma \div 4096) * (mb \div 4096),
          (ma \div 4096) * (mb % 4096) + (ma % 4096) * (mb \div 4096),
          (ma % 4096) * (mb % 4096)]

\* a * b
FMul[a \in Int, b \in Int] ==
  IF IsNaN[a] \/ IsNaN[b] THEN NaNBits
  ELSE IF IsInf[a] \/ IsInf[b]
       THEN (IF a = 0 \/ b = 0 THEN NaNBits ELSE Sign[a] * Sign[b] * InfBits)
  ELSE IF a = 0 \/ b = 0 THEN 0
  ELSE RoundPack[Sign[a] * Sign[b], NormExp[a] + NormExp[b] + 18,
                 MulMant[NormMant[a], NormMant[b]]]

\* the quotient of two 24-bit significands with 7 * steps more bits, by long
\* division 7 bits at a time, a nonzero remainder kept in the last bit; r is
\* what is left of the dividend and q the quotient so far
DivMant[r \in Int, mb \in Int, q \in Int, steps \in Int] ==
  IF steps = 0
  THEN (IF r % mb = 0 THEN q * 128 + r \div mb
        ELSE (q * 128 + r \div mb) - ((q * 128 + r \div mb) % 2) + 1)
  ELSE DivMant[(r % mb) * 128, mb, q * 128 + r \div mb, steps - 1]

\* a / b; 28 quotient bits below the leading one
FDiv[a \in Int, b \in Int] ==
  IF IsNaN[a] \/ IsNaN[b] THEN NaNBits
  ELSE IF IsInf[a] THEN (IF IsInf[b] THEN NaNBits ELSE Sign[a] * Sign[b] * InfBits)
  ELSE IF IsInf[b] THEN 0
  ELSE IF b = 0 THEN (IF a = 0 THEN NaNBits ELSE Sign[a] * InfBits)
  ELSE IF a = 0 THEN 0
  ELSE RoundPack[Sign[a] * Sign[b], NormExp[a] - NormExp[b] - 28,
                 DivMant[NormMant[a], NormMant[b], 0, 4]]

\* static_cast<float>(n) for an int n
I2F[n \in Int] == RoundPack[Sign[n], 0, Abs[n]]

\* whether static_cast<int>(f) is defined: the truncated value fits an int
IntCastDefined[f \in Int] == IsFinite[f] /\ Mag[f] < 158 * 2^23

\* static_cast<int>(f): truncation toward zero (for f with IntCastDefined)
F2I[f \in Int] ==
  LET e == LsbExp[f]
  IN IF e >= 0 THEN Sign[f] * (Mant[f] * 2^e)
     ELSE IF -e >= 31 THEN 0
     ELSE Sign[f] * (Mant[f] \div 2^(-e))


\* a decimal literal num/den with the suffix f: the float nearest to the quotient
\* (num and den below 2^24, so that both are floats themselves)
Dec[num \in Int, den \in Int] == FDiv[I2F[num], I2F[den]]

(***************************************************************************)
(* Float literals of the source                                            *)
(***************************************************************************)

f0_5 == Dec[5, 10]

f1 == I2F[1]

f2 == I2F[2]

f4 == I2F[4]

f9 == I2F[9]

f88 == I2F[88]

fm87 == I2F[-87]

f1_6 == FDiv[f1, I2F[6]]

f1_24 == FDiv[f1, I2F[24]]

f1_120 == FDiv[f1, I2F[120]]

f2_3 == FDiv[f2, I2F[3]]

f2_5 == FDiv[f2, I2F[5]]

f2_7 == FDiv[f2, I2F[7]]

(***************************************************************************)
(* sin and cos                                                             *)
(***************************************************************************)

\* constexpr float pi = 3.14159265358979323846264338327950288 (0x40490FDB)
pi == 1078530011

two_pi == FMul[f2, pi]

half_pi == FDiv[pi, f2]

B == FDiv[f4, pi]

C == FDiv[f4, FMul[pi, pi]]

zero == 0

P == Dec[225, 1000]

\* the first reduction loop: while (theta < -pi) theta += two_pi
ReduceUpCond[theta \in Int] == FLt[theta, FNeg[pi]]

ReduceUpBody[theta \in Int] == FAdd[theta, two_pi]

\* the second reduction loop: while (theta > pi) theta -= two_pi
ReduceDownCond[theta \in Int] == FGt[theta, pi]

ReduceDownBody[theta \in Int] == FSub[theta, two_pi]

\* Correct with the correction pass left out
MutCorrect(s) == s

\* the correction pass sin = P * (sin * |sin| - sin) + sin, as its two branches
Correct(s) ==
  IF FLt[s, zero]
  THEN FAdd[FMul[P, FSub[FMul[s, FNeg[s]], s]], s]
  ELSE FAdd[FMul[P, FSub[FMul[s, s], s]], s]

\* sin's parabola and correction on the reduced angle
SinPoly[theta \in Int] ==
  IF FLt[theta, zero]
  THEN Correct(FAdd[FMul[theta, B], FMul[FMul[C, theta], theta]])
  ELSE Correct(FSub[FMul[theta, B], FMul[FMul[C, theta], theta]])

\* cos's phase shift after its loops: theta += half_pi, re-wrapped once
CosShift[theta \in Int] ==
  LET t == FAdd[theta, half_pi]
  IN IF FGt[t, pi] THEN FSub[t, two_pi] ELSE t

\* cos's parabola and correction on the shifted angle
CosPoly[theta \in Int] ==
  IF FLt[theta, zero]
  THEN Correct(FAdd[FMul[theta, B], FMul[FMul[C, theta], theta]])
  ELSE Correct(FSub[FMul[theta, B], FMul[FMul[C, theta], theta]])

ReduceUp[theta \in Int] ==
  IF ReduceUpCond[theta] THEN ReduceUp[ReduceUpBody[theta]] ELSE theta

ReduceDown[theta \in Int] ==
  IF ReduceDownCond[theta] THEN ReduceDown[ReduceDownBody[theta]] ELSE theta

\* FastMath::sin, for an argument on which its loops end
sin[theta \in Int] == SinPoly[ReduceDown[ReduceUp[theta]]]

\* FastMath::cos, for an argument on which its loops end
cos[theta \in Int] == CosPoly[CosShift[ReduceDown[ReduceUp[theta]]]]

(***************************************************************************)
(* binary64 arithmetic.  M_PI is a double, so an expression with M_PI is   *)
(* computed in double and rounded to float where it is assigned or         *)
(* returned.  A double is <<sign, e, hi, lo>>, the number                  *)
(* sign * (hi * 2^28 + lo) * 2^e with hi * 2^28 + lo in [2^52, 2^53), or   *)
(* <<1, 0, 0, 0>> for zero.  The exponents of this library's doubles are   *)
(* those of floats, far from the ends of the double range.                 *)
(***************************************************************************)

Limb == 2^28

Double == Int \X Int \X Int \X Int

DZero == <<1, 0, 0, 0>>

DIsZero[d \in Double] == d[3] = 0 /\ d[4] = 0

\* hi * 2^28 + lo < 2^53 shifted left by k, the result below 2^53
DShiftLeft[e \in Int, hi \in Int, lo \in Int, k \in Int] ==
  IF k >= 28 THEN <<e - k, lo * 2^(k - 28), 0>>
  ELSE <<e - k, hi * 2^k + lo \div 2^(28 - k), (lo % 2^(28 - k)) * 2^k>>

\* hi * 2^28 + lo shifted right by k in 1..4 and rounded to nearest even
DShiftRightKept[hi \in Int, lo \in Int, k \in Int] ==
  <<hi \div 2^k, lo \div 2^k + (hi % 2^k) * 2^(28 - k)>>

DRoundUp[lo \in Int, kept \in Int, k \in Int] ==
  \/ lo % 2^k > 2^(k - 1)
  \/ lo % 2^k = 2^(k - 1) /\ kept % 2 = 1

DIncrement[sign \in Int, e \in Int, hi \in Int, lo \in Int] ==
  IF lo + 1 < Limb THEN <<sign, e, hi, lo + 1>>
  ELSE IF hi + 1 < 2^25 THEN <<sign, e, hi + 1, 0>>
  ELSE <<sign, e + 1, 2^24, 0>>

DShiftRightRound[sign \in Int, e \in Int, hi \in Int, lo \in Int, k \in Int,
                 kept \in Int \X Int] ==
  IF DRoundUp[lo, kept[2], k]
  THEN DIncrement[sign, e + k, kept[1], kept[2]]
  ELSE <<sign, e + k, kept[1], kept[2]>>

DBitLen[hi \in Int, lo \in Int] ==
  IF hi > 0 THEN 28 + BitLen[hi] ELSE BitLen[lo]

DRoundLen[sign \in Int, e \in Int, hi \in Int, lo \in Int, n \in Int] ==
  IF n <= 53
  THEN <<sign>> \o DShiftLeft[e, hi, lo, 53 - n]
  ELSE DShiftRightRound[sign, e, hi, lo, n - 53,
                        DShiftRightKept[hi, lo, n - 53]]

\* the double nearest to sign * (hi * 2^28 + lo) * 2^e, ties to even; the
\* number has at most 57 bits and is exact, or carries a sticky last bit
\* under at least 55 bits
DRound[sign \in Int, e \in Int, hi \in Int, lo \in Int] ==
  IF hi = 0 /\ lo = 0 THEN DZero
  ELSE DRoundLen[sign, e, hi, lo, DBitLen[hi, lo]]

\* the conversion float -> double, which is exact
F2D[f \in Int] ==
  IF Mag[f] = 0 THEN DZero
  ELSE <<Sign[f], NormExp[f] - 29, NormMant[f] * 2, 0>>

\* the conversion double -> float, rounded to nearest even
D2F[d \in Double] ==
  IF DIsZero[d] THEN zero
  ELSE RoundPack[d[1], d[2] + 26,
                 d[3] * 4 + 2 * (d[4] \div 2^27)
                   + (IF d[4] % 2^27 = 0 THEN 0 ELSE 1)]

DNeg[d \in Double] == IF DIsZero[d] THEN d ELSE <<-d[1], d[2], d[3], d[4]>>

\* the significand with three more bits, <<e, hi, lo>>
DWiden[d \in Double] ==
  <<d[2] - 3, d[3] * 8 + d[4] \div 2^25, (d[4] % 2^25) * 8>>

\* <<hi, lo>> shifted right by k, a sticky bit kept in the last place
DJam[lo \in Int, sticky \in BOOLEAN] ==
  IF sticky /\ lo % 2 = 0 THEN lo + 1 ELSE lo

DShiftRightJam[hi \in Int, lo \in Int, k \in Int] ==
  IF k = 0 THEN <<hi, lo>>
  ELSE IF k >= 56 THEN <<0, 1>>
  ELSE IF k >= 28
    THEN <<0, DJam[hi \div 2^(k - 28), hi % 2^(k - 28) # 0 \/ lo # 0]>>
  ELSE <<hi \div 2^k,
         DJam[lo \div 2^k + (hi % 2^k) * 2^(28 - k), lo % 2^k # 0]>>

\* |a| + |b| and |a| - |b| >= 0 of two aligned significands
DMagAdd[sign \in Int, e \in Int, a \in Int \X Int, b \in Int \X Int] ==
  DRound[sign, e, a[1] + b[1] + (a[2] + b[2]) \div Limb, (a[2] + b[2]) % Limb]

DMagSub[sign \in Int, e \in Int, a \in Int \X Int, b \in Int \X Int] ==
  IF a[2] >= b[2] THEN DRound[sign, e, a[1] - b[1], a[2] - b[2]]
  ELSE DRound[sign, e, a[1] - b[1] - 1, a[2] + Limb - b[2]]

DMagLess[a \in Int \X Int, b \in Int \X Int] ==
  a[1] < b[1] \/ (a[1] = b[1] /\ a[2] < b[2])

\* a + b for widened a and b with the exponent of a not below that of b
DAddAligned[sa \in Int, sb \in Int, e \in Int,
            a \in Int \X Int, b \in Int \X Int] ==
  IF sa = sb THEN DMagAdd[sa, e, a, b]
  ELSE IF DMagLess[a, b] THEN DMagSub[sb, e, b, a]
  ELSE DMagSub[sa, e, a, b]

DAddOrdered[sa \in Int, wa \in Int \X Int \X Int,
            sb \in Int, wb \in Int \X Int \X Int] ==
  DAddAligned[sa, sb, wa[1], <<wa[2], wa[3]>>,
              DShiftRightJam[wb[2], wb[3], wa[1] - wb[1]]]

\* a + b in double
DAdd[a \in Double, b \in Double] ==
  IF DIsZero[a] THEN b
  ELSE IF DIsZero[b] THEN a
  ELSE IF a[2] >= b[2] THEN DAddOrdered[a[1], DWiden[a], b[1], DWiden[b]]
  ELSE DAddOrdered[b[1], DWiden[b], a[1], DWiden[a]]

\* a - b in double
DSub[a \in Double, b \in Double] == DAdd[a, DNeg[b]]

\* m * limb + c for m < 2^24 and limb < 2^28, seven bits of limb at a time:
\* <<the carry, the low 28 bits>>
DMulDigits[m \in Int, limb \in Int, c \in Int, out \in Int, steps \in Int] ==
  IF steps = 0 THEN <<c, out>>
  ELSE DMulDigits[m, limb \div 128, (m * (limb % 128) + c) \div 128,
                  out + ((m * (limb % 128) + c) % 128) * 128^(4 - steps),
                  steps - 1]

\* the product c * 2^56 + outhi * 2^28 + outlo, its last 21 bits turned
\* into a sticky bit
DMulWindow[sign \in Int, e \in Int, high \in Int \X Int, outlo \in Int] ==
  DRound[sign, e + 21, high[1] * 128 + high[2] \div 2^21,
         DJam[(high[2] % 2^21) * 128 + outlo \div 2^21, outlo % 2^21 # 0]]

DMulHigh[sign \in Int, e \in Int, m \in Int, hi \in Int,
         low \in Int \X Int] ==
  DMulWindow[sign, e, DMulDigits[m, hi, low[1], 0, 4], low[2]]

\* (double) f * d in double, f a float
DMulF[f \in Int, d \in Double] ==
  IF Mag[f] = 0 \/ DIsZero[d] THEN DZero
  ELSE DMulHigh[Sign[f] * d[1], NormExp[f] + d[2], NormMant[f], d[3],
                DMulDigits[NormMant[f], d[4], 0, 0, 4]]

\* M_PI of <cmath>, 0x400921FB54442D18
M_PI == <<1, -51, 26353589, 71576856>>

\* d / 2.0f and d / 4.0f in double
DHalf[d \in Double] == <<d[1], d[2] - 1, d[3], d[4]>>

DQuarter[d \in Double] == <<d[1], d[2] - 2, d[3], d[4]>>

(***************************************************************************)
(* tan                                                                     *)
(***************************************************************************)

\* the literals 1e-7f (0x33D6BF95) and 1e7f
f1em7 == Dec[1, 10000000]

f1e7 == I2F[10000000]

\* the return statement a call of tan leaves by, from cos_val
TanPath[cos_val \in Int] ==
  IF FLt[FAbs[cos_val], f1em7] THEN "asymptote" ELSE "quotient"

\* tan's return value, from sin_val and cos_val
TanReturn[sin_val \in Int, cos_val \in Int] ==
  IF FLt[FAbs[cos_val], f1em7]
  THEN (IF FGe[cos_val, zero] THEN f1e7 ELSE FNeg[f1e7])
  ELSE FDiv[sin_val, cos_val]

\* FastMath::tan, for an argument on which the loops of sin and cos end
tan[theta \in Int] == TanReturn[sin[theta], cos[theta]]

(***************************************************************************)
(* asin, acos, atan2                                                       *)
(***************************************************************************)

\* M_PI / 2.0f and -M_PI / 2.0f as the float a function returns
HalfPiReturn == D2F[DHalf[M_PI]]

MinusHalfPiReturn == D2F[DHalf[DNeg[M_PI]]]

\* asin's initial guess, float y = x * (M_PI / 2.0f)
AsinGuess[x \in Int] == D2F[DMulF[x, DHalf[M_PI]]]

\* the loop of asin goes on: i < 3 and no break
AsinContinue[yy \in Int, ii \in Int] ==
  ii < 3 /\ ~FLt[FAbs[cos[yy]], f1em7]

\* y = y - (sin_y - x) / cos_y
AsinNewton[x \in Int, yy \in Int] ==
  FSub[yy, FDiv[FSub[sin[yy], x], cos[yy]]]

\* the loop of asin from y and i on, and the y it returns
AsinLoop[x \in Int, yy \in Int, ii \in Int] ==
  IF AsinContinue[yy, ii] THEN AsinLoop[x, AsinNewton[x, yy], ii + 1]
  ELSE yy

\* the return statement a call of asin leaves by ahead of its loop, if any
AsinPath[x \in Int] ==
  IF FGe[x, f1] THEN "upper"
  ELSE IF FLe[x, FNeg[f1]] THEN "lower"
  ELSE IF FLt[FAbs[x], f1em7] THEN "zero"
  ELSE "newton"

\* FastMath::asin
asin[x \in Int] ==
  IF FGe[x, f1] THEN HalfPiReturn
  ELSE IF FLe[x, FNeg[f1]] THEN MinusHalfPiReturn
  ELSE IF FLt[FAbs[x], f1em7] THEN zero
  ELSE AsinLoop[x, AsinGuess[x], 0]

\* FastMath::acos, M_PI / 2.0f - asin(x) in double
acos[x \in Int] == D2F[DSub[DHalf[M_PI], F2D[asin[x]]]]

\* the literal 0.273f
f0_273 == Dec[273, 1000]

\* a * (M_PI / 4.0f + 0.273f * (1.0f - a)) in double; the product
\* 0.273f * (1.0f - a) is one of floats
Atan2Poly[a \in Int] ==
  DMulF[a, DAdd[DQuarter[M_PI], F2D[FMul[f0_273, FSub[f1, a]]]]]

\* the divisor of atan2's one division: abs_x if abs_x >= abs_y, else abs_y
Atan2Divisor[abs_y \in Int, abs_x \in Int] ==
  IF FGe[abs_x, abs_y] THEN abs_x ELSE abs_y

\* atan2's float a: abs_y / abs_x if abs_x >= abs_y, else abs_x / abs_y
Atan2A[abs_y \in Int, abs_x \in Int] ==
  IF FGe[abs_x, abs_y] THEN FDiv[abs_y, abs_x] ELSE FDiv[abs_x, abs_y]

\* atan2's angle ahead of the adjustment for the quadrant
Atan2Angle[abs_y \in Int, abs_x \in Int] ==
  IF FGe[abs_x, abs_y] THEN D2F[Atan2Poly[Atan2A[abs_y, abs_x]]]
  ELSE D2F[DSub[DHalf[M_PI], Atan2Poly[Atan2A[abs_y, abs_x]]]]

\* atan2's adjustment for the quadrant
Atan2Adjust[yy \in Int, x \in Int, angle \in Int] ==
  IF FLt[x, zero]
  THEN (IF FGe[yy, zero] THEN D2F[DSub[M_PI, F2D[angle]]]
        ELSE D2F[DAdd[DNeg[M_PI], F2D[angle]]])
  ELSE (IF FLt[yy, zero] THEN FNeg[angle] ELSE angle)

\* the return statement a call of atan2 leaves by
Atan2Path[yy \in Int, x \in Int] ==
  IF FLt[FAbs[x], f1em7] /\ FLt[FAbs[yy], f1em7] THEN "origin"
  ELSE IF FLt[FAbs[x], f1em7] THEN "vertical"
  ELSE "quotient"

\* FastMath::atan2
atan2[yy \in Int, x \in Int] ==
  IF FLt[FAbs[x], f1em7] /\ FLt[FAbs[yy], f1em7] THEN zero
  ELSE IF FLt[FAbs[x], f1em7]
    THEN (IF FGe[yy, zero] THEN HalfPiReturn ELSE MinusHalfPiReturn)
  ELSE Atan2Adjust[yy, x, Atan2Angle[FAbs[yy], FAbs[x]]]

(***************************************************************************)
(* sqrt, exp, log                                                          *)
(***************************************************************************)

\* the magic number 0x1FBD1DF5 of sqrt's initial guess
SqrtMagic == 532487669

\* sqrt's initial guess and its two Newton-Raphson steps; conv.i is the bit
\* pattern of a positive float, so the shift and the sum are those of a
\* non-negative int
SqrtGuess[number \in Int] == SqrtMagic + (number \div 2)

SqrtStep[number \in Int, x \in Int] == FMul[f0_5, FAdd[x, FDiv[number, x]]]

SqrtNewton[number \in Int] ==
  SqrtStep[number, SqrtStep[number, SqrtGuess[number]]]

\* FastMath::sqrt
sqrt[number \in Int] ==
  IF FLe[number, zero] THEN zero ELSE SqrtNewton[number]

\* the sentinel 1e38f (0x7E967699)
Sentinel1e38 == 2123789977

\* constexpr float inv_ln2 = 1.44269504088896341f (0x3FB8AA3B)
inv_ln2 == 1069066811

\* constexpr float ln2 = 0.69314718055994531f (0x3F317218)
ln2 == 1060205080

\* the IEEE-754 exponent bias
Bias == 127

\* exp's fx = x * inv_ln2
ExpFx[x \in Int] == FMul[x, inv_ln2]

\* exp's int n, the cast of fx + (fx >= 0 ? 0.5 : -0.5)
ExpN[x \in Int] ==
  F2I[FAdd[ExpFx[x], IF FGe[ExpFx[x], zero] THEN f0_5 ELSE FNeg[f0_5]]]

\* exp's r after r *= ln2
ExpR[x \in Int] == FMul[FSub[ExpFx[x], I2F[ExpN[x]]], ln2]

\* exp's r2 * r * (1/6 + r * (1/24 + r * (1/120)))
ExpTail[r \in Int] ==
  FMul[FMul[FMul[r, r], r],
       FAdd[f1_6, FMul[r, FAdd[f1_24, FMul[r, f1_120]]]]]

\* exp's poly
ExpPoly[r \in Int] ==
  FAdd[FAdd[FAdd[f1, r], FMul[f0_5, FMul[r, r]]], ExpTail[r]]

\* exp's result.i = (n + 127) << 23
ExpBits[n \in Int] == (n + Bias) * HiddenBit

\* exp past its two clamps
ExpSeries[x \in Int] == FMul[ExpPoly[ExpR[x]], ExpBits[ExpN[x]]]

\* FastMath::exp
exp[x \in Int] ==
  IF FGt[x, f88] THEN Sentinel1e38
  ELSE IF FLt[x, fm87] THEN zero
  ELSE ExpSeries[x]

\* the bit pattern of 1.0f, 0x3F800000
OneBits == 1065353216

\* log's int exponent and float mantissa, taken from the bits of x
LogExponent[x \in Int] == ExpField[x] - Bias

LogMantissa[x \in Int] == Frac[x] + OneBits

\* log's t = (mantissa - 1) / (mantissa + 1)
LogT[mantissa \in Int] == FDiv[FSub[mantissa, f1], FAdd[mantissa, f1]]

\* log's poly, with t2 = t * t
LogPoly[t \in Int, t2 \in Int] ==
  FMul[t, FAdd[f2,
    FMul[t2, FAdd[f2_3,
      FMul[t2, FAdd[f2_5,
        FMul[t2, FAdd[f2_7,
          FDiv[FMul[t2, f2], f9]]]]]]]]]

\* log past its two guards
LogSeries[x \in Int] ==
  FAdd[FMul[I2F[LogExponent[x]], ln2],
       LogPoly[LogT[LogMantissa[x]],
               FMul[LogT[LogMantissa[x]], LogT[LogMantissa[x]]]]]

\* FastMath::log
log[x \in Int] ==
  IF FLe[x, zero] THEN FNeg[Sentinel1e38]
  ELSE IF FEq[x, f1] THEN zero
  ELSE LogSeries[x]

\* constexpr float inv_ln10 = 0.43429448190325176f (0x3EDE5BD9)
inv_ln10 == 1054759897

\* FastMath::log10
log10[x \in Int] == FMul[log[x], inv_ln10]

\* FastMath::log2
log2[x \in Int] == FMul[log[x], inv_ln2]

(***************************************************************************)
(* sinh, cosh, tanh, asinh, acosh, atanh                                   *)
(***************************************************************************)

\* the literals of the hyperbolic functions; a quotient of two literals is
\* one float division
f1_5 == Dec[15, 10]

f5 == I2F[5]

f1_3 == FDiv[f1, I2F[3]]

f1_12 == FDiv[f1, I2F[12]]

f1_720 == FDiv[f1, I2F[720]]

f2_15 == FDiv[f2, I2F[15]]

f3_40 == FDiv[I2F[3], I2F[40]]

f3_160 == FDiv[I2F[3], I2F[160]]

\* sinh's Taylor series for |x| < 0.5, with x2 = x * x
SinhSeries[x \in Int, x2 \in Int] ==
  FMul[x, FAdd[f1,
    FMul[x2, FAdd[f1_6,
      FMul[x2, FAdd[f1_120, FDiv[x2, I2F[5040]]]]]]]]

\* 0.5f * (exp_x - exp_neg_x) with exp_neg_x = 1.0f / exp_x
SinhOfExp[exp_x \in Int] == FMul[f0_5, FSub[exp_x, FDiv[f1, exp_x]]]

\* FastMath::sinh
sinh[x \in Int] ==
  IF FLt[FAbs[x], f0_5] THEN SinhSeries[x, FMul[x, x]]
  ELSE IF FLt[x, zero] THEN FNeg[SinhOfExp[exp[FNeg[x]]]]
  ELSE SinhOfExp[exp[x]]

\* cosh's Taylor series for |x| < 0.5
CoshSeries[x2 \in Int] ==
  FAdd[f1,
    FMul[x2, FAdd[f0_5,
      FMul[x2, FAdd[f1_24,
        FMul[x2, FAdd[f1_720, FDiv[x2, I2F[40320]]]]]]]]]

\* 0.5f * (exp_x + exp_neg_x)
CoshOfExp[exp_x \in Int] == FMul[f0_5, FAdd[exp_x, FDiv[f1, exp_x]]]

\* FastMath::cosh
cosh[x \in Int] ==
  IF FLt[FAbs[x], f0_5] THEN CoshSeries[FMul[x, x]]
  ELSE CoshOfExp[exp[FAbs[x]]]

\* tanh's Taylor series for |x| < 0.5
TanhSeries[x \in Int, x2 \in Int] ==
  FMul[x, FSub[f1,
    FMul[x2, FSub[f1_3,
      FMul[x2, FSub[f2_15, FDiv[FMul[x2, I2F[17]], I2F[315]]]]]]]]

\* (exp_2x - 1) / (exp_2x + 1)
TanhOfExp[exp_2x \in Int] == FDiv[FSub[exp_2x, f1], FAdd[exp_2x, f1]]

\* FastMath::tanh
tanh[x \in Int] ==
  IF FGt[x, f5] THEN f1
  ELSE IF FLt[x, FNeg[f5]] THEN FNeg[f1]
  ELSE IF FLt[FAbs[x], f0_5] THEN TanhSeries[x, FMul[x, x]]
  ELSE TanhOfExp[exp[FMul[f2, x]]]

\* asinh's Taylor series for |x| < 0.5
AsinhSeries[x \in Int, x2 \in Int] ==
  FMul[x, FSub[f1,
    FMul[x2, FSub[f1_6,
      FMul[x2, FSub[f3_40, FDiv[FMul[x2, I2F[15]], I2F[336]]]]]]]]

\* log(x + sqrt(x * x + 1)) for x >= 0.5
AsinhOfLog[x \in Int] == log[FAdd[x, sqrt[FAdd[FMul[x, x], f1]]]]

\* FastMath::asinh
asinh[x \in Int] ==
  IF FLt[FAbs[x], f0_5] THEN AsinhSeries[x, FMul[x, x]]
  ELSE IF FLt[x, zero] THEN FNeg[AsinhOfLog[FNeg[x]]]
  ELSE AsinhOfLog[x]

\* acosh's series near 1, with t = x - 1 and sqrt_2t = sqrt(2 * t)
AcoshSeries[t \in Int, sqrt_2t \in Int] ==
  FMul[sqrt_2t, FSub[f1,
    FMul[t, FSub[f1_12,
      FMul[t, FSub[f3_160, FDiv[FMul[t, f5], I2F[896]]]]]]]]

\* FastMath::acosh
acosh[x \in Int] ==
  IF FLt[x, f1] THEN zero
  ELSE IF FLt[x, f1_5]
    THEN AcoshSeries[FSub[x, f1], sqrt[FMul[f2, FSub[x, f1]]]]
  ELSE log[FAdd[x, sqrt[FSub[FMul[x, x], f1]]]]

\* atanh's Taylor series for |x| < 0.5
AtanhSeries[x \in Int, x2 \in Int] ==
  FMul[x, FAdd[f1,
    FMul[x2, FAdd[f1_3,
      FMul[x2, FAdd[f2_15, FDiv[FMul[x2, I2F[17]], I2F[315]]]]]]]]

\* FastMath::atanh
atanh[x \in Int] ==
  IF FGe[FAbs[x], f1] THEN zero
  ELSE IF FLt[FAbs[x], f0_5] THEN AtanhSeries[x, FMul[x, x]]
  ELSE FMul[f0_5, log[FDiv[FAdd[f1, x], FSub[f1, x]]]]

(***************************************************************************)
(* fmod, ceil, floor, round                                                *)
(***************************************************************************)

RemShift[r \in Int, m \in Int, d \in Int] ==
  IF d = 0 THEN r
  ELSE IF d >= 7 THEN RemShift[(128 * r) % m, m, d - 7]
  ELSE (2^d * r) % m

\* std::fmod of <cmath>: the exact remainder dividend - trunc(dividend/divisor) * divisor,
\* which is a float; NaN for a zero divisor or an infinite dividend
StdFmod[dividend \in Int, divisor \in Int] ==
  IF IsNaN[dividend] \/ IsNaN[divisor] \/ IsInf[dividend] \/ divisor = 0 THEN NaNBits
  ELSE IF Mag[dividend] < Mag[divisor] THEN dividend
  ELSE RoundPack[Sign[dividend], LsbExp[divisor],
                 RemShift[Mant[dividend] % Mant[divisor], Mant[divisor],
                          LsbExp[dividend] - LsbExp[divisor]]]

\* constexpr float max_safe_value = 25.0f
max_safe_value == I2F[25]

\* FmodPath without the check of a zero divisor
MutFmodPath(dividend, divisor) ==
  IF FLt[FAbs[dividend], FAbs[divisor]] THEN "small_dividend"
  ELSE IF FGt[FAbs[dividend], max_safe_value] \/ FGt[FAbs[divisor], max_safe_value]
       THEN "std_operand"
  ELSE IF FGt[FAbs[FDiv[dividend, divisor]], max_safe_value] THEN "std_quotient"
  ELSE "fast"

\* which return statement of fmod is taken
FmodPath(dividend, divisor) ==
  IF FEq[divisor, zero] THEN "zero_divisor"
  ELSE IF FLt[FAbs[dividend], FAbs[divisor]] THEN "small_dividend"
  ELSE IF FGt[FAbs[dividend], max_safe_value] \/ FGt[FAbs[divisor], max_safe_value]
       THEN "std_operand"
  ELSE IF FGt[FAbs[FDiv[dividend, divisor]], max_safe_value] THEN "std_quotient"
  ELSE "fast"

\* the fast path: dividend - float(int(dividend / divisor)) * divisor
FmodFast[dividend \in Int, divisor \in Int] ==
  LET quotient == FDiv[dividend, divisor]
      int_quotient == F2I[quotient]
      truncated_quotient == I2F[int_quotient]
  IN FSub[dividend, FMul[truncated_quotient, divisor]]

\* FastMath::fmod
fmod(dividend, divisor) ==
  LET taken == FmodPath(dividend, divisor)
  IN CASE taken = "zero_divisor" -> zero
       [] taken = "small_dividend" -> dividend
       [] taken = "std_operand" -> StdFmod[dividend, divisor]
       [] taken = "std_quotient" -> StdFmod[dividend, divisor]
       [] OTHER -> FmodFast[dividend, divisor]

\* FastMath::ceil
ceil(x) ==
  IF FGe[x, zero]
  THEN LET int_x == F2I[x]
       IN IF FGt[x, I2F[int_x]] THEN I2F[int_x + 1] ELSE I2F[int_x]
  ELSE I2F[F2I[x]]

\* floor without the step down for a negative argument with a fraction
MutFloor(x) == I2F[F2I[x]]

\* FastMath::floor
floor(x) ==
  IF FGe[x, zero]
  THEN I2F[F2I[x]]
  ELSE LET int_x == F2I[x]
       IN IF FLt[x, I2F[int_x]] THEN I2F[int_x - 1] ELSE I2F[int_x]

\* round with floor(x + 0.5f) on both sides of zero
MutRound(x) == floor(FAdd[x, f0_5])

\* FastMath::round
round(x) ==
  IF FGe[x, zero] THEN floor(FAdd[x, f0_5]) ELSE ceil(FSub[x, f0_5])

(***************************************************************************)
(* pow                                                                     *)
(***************************************************************************)

\* PowBranch with the checks of the base before those of the exponent
MutPowBranchBaseFirst(b, exponent) ==
  IF FEq[b, zero] THEN "base_0"
  ELSE IF FEq[b, f1] THEN "base_1"
  ELSE IF FEq[exponent, zero] THEN "exp_0"
  ELSE IF FEq[exponent, f1] THEN "exp_1"
  ELSE IF FEq[exponent, f2] THEN "exp_2"
  ELSE IF FEq[exponent, I2F[3]] THEN "exp_3"
  ELSE IF FEq[exponent, f4] THEN "exp_4"
  ELSE IF FEq[exponent, f0_5] THEN "exp_half"
  ELSE IF FEq[exponent, I2F[-1]] THEN "exp_m1"
  ELSE IF FEq[exponent, I2F[-2]] THEN "exp_m2"
  ELSE IF FEq[exponent, I2F[F2I[exponent]]] /\ Abs[F2I[exponent]] <= 32 THEN "int_loop"
  ELSE IF FLt[b, zero] THEN "neg_base"
  ELSE "general"

\* PowBranch with the check of a zero base after the closed forms
MutPowBranchBaseLate(b, exponent) ==
  IF FEq[exponent, zero] THEN "exp_0"
  ELSE IF FEq[exponent, f1] THEN "exp_1"
  ELSE IF FEq[b, f1] THEN "base_1"
  ELSE IF FEq[exponent, f2] THEN "exp_2"
  ELSE IF FEq[exponent, I2F[3]] THEN "exp_3"
  ELSE IF FEq[exponent, f4] THEN "exp_4"
  ELSE IF FEq[exponent, f0_5] THEN "exp_half"
  ELSE IF FEq[exponent, I2F[-1]] THEN "exp_m1"
  ELSE IF FEq[exponent, I2F[-2]] THEN "exp_m2"
  ELSE IF FEq[b, zero] THEN "base_0"
  ELSE IF FEq[exponent, I2F[F2I[exponent]]] /\ Abs[F2I[exponent]] <= 32 THEN "int_loop"
  ELSE IF FLt[b, zero] THEN "neg_base"
  ELSE "general"

\* PowBranch without the check of a negative base
MutPowBranchNoNegative(b, exponent) ==
  IF FEq[exponent, zero] THEN "exp_0"
  ELSE IF FEq[exponent, f1] THEN "exp_1"
  ELSE IF FEq[b, zero] THEN "base_0"
  ELSE IF FEq[b, f1] THEN "base_1"
  ELSE IF FEq[exponent, f2] THEN "exp_2"
  ELSE IF FEq[exponent, I2F[3]] THEN "exp_3"
  ELSE IF FEq[exponent, f4] THEN "exp_4"
  ELSE IF FEq[exponent, f0_5] THEN "exp_half"
  ELSE IF FEq[exponent, I2F[-1]] THEN "exp_m1"
  ELSE IF FEq[exponent, I2F[-2]] THEN "exp_m2"
  ELSE IF FEq[exponent, I2F[F2I[exponent]]] /\ Abs[F2I[exponent]] <= 32 THEN "int_loop"
  ELSE "general"

\* which branch of pow's ladder a call takes, in the order of the source
PowBranch(b, exponent) ==
  IF FEq[exponent, zero] THEN "exp_0"
  ELSE IF FEq[exponent, f1] THEN "exp_1"
  ELSE IF FEq[b, zero] THEN "base_0"
  ELSE IF FEq[b, f1] THEN "base_1"
  ELSE IF FEq[exponent, f2] THEN "exp_2"
  ELSE IF FEq[exponent, I2F[3]] THEN "exp_3"
  ELSE IF FEq[exponent, f4] THEN "exp_4"
  ELSE IF FEq[exponent, f0_5] THEN "exp_half"
  ELSE IF FEq[exponent, I2F[-1]] THEN "exp_m1"
  ELSE IF FEq[exponent, I2F[-2]] THEN "exp_m2"
  ELSE IF FEq[exponent, I2F[F2I[exponent]]] /\ Abs[F2I[exponent]] <= 32 THEN "int_loop"
  ELSE IF FLt[b, zero] THEN "neg_base"
  ELSE "general"

\* the value returned by each branch that returns without the loop
PowReturn(b, exponent, branch) ==
  CASE branch = "exp_0" -> f1
    [] branch = "exp_1" -> b
    [] branch = "base_0" -> (IF FGt[exponent, zero] THEN zero ELSE Sentinel1e38)
    [] branch = "base_1" -> f1
    [] branch = "exp_2" -> FMul[b, b]
    [] branch = "exp_3" -> FMul[FMul[b, b], b]
    [] branch = "exp_4" -> FMul[FMul[b, b], FMul[b, b]]
    [] branch = "exp_half" -> sqrt[b]
    [] branch = "exp_m1" -> FDiv[f1, b]
    [] branch = "exp_m2" -> FDiv[f1, FMul[b, b]]
    [] branch = "neg_base" -> zero
    [] OTHER -> exp[FMul[exponent, log[b]]]

\* pow's loop while (abs_exp > 0), and the result it leaves
PowLoop[res \in Int, cur \in Int, n \in Int] ==
  IF n > 0
  THEN PowLoop[IF n % 2 = 1 THEN FMul[res, cur] ELSE res, FMul[cur, cur], n \div 2]
  ELSE res

\* the inversion for a negative exponent
PowInvert[exponent \in Int, res \in Int] ==
  IF F2I[exponent] < 0 THEN FDiv[f1, res] ELSE res

\* pow's branch for an integral exponent of magnitude up to 32
PowInteger[b \in Int, exponent \in Int] ==
  IF FLt[b, zero] /\ F2I[exponent] % 2 = 1
  THEN FNeg[PowInvert[exponent, PowLoop[f1, FNeg[b], Abs[F2I[exponent]]]]]
  ELSE PowInvert[exponent, PowLoop[f1, FAbs[b], Abs[F2I[exponent]]]]

\* FastMath::pow
pow[b \in Int, exponent \in Int] ==
  IF PowBranch(b, exponent) = "int_loop" THEN PowInteger[b, exponent]
  ELSE PowReturn(b, exponent, PowBranch(b, exponent))

(***************************************************************************)
(* The state: one call of a library function at a time, with the locals of *)
(* the functions that loop, and the accumulators of the precision tests.   *)
(***************************************************************************)
VARIABLES
  fn,               \* the function being called, "none" before any call
  pc,               \* "idle", a loop head of the function, or "done"
  arg1, arg2,       \* the arguments of the call (arg2 is 0 for a unary function)
  ret,              \* the returned float, once pc = "done"
  path,             \* the return statement or branch taken
  theta,            \* sin, cos: the angle being reduced
  base,             \* pow: the base, made non-negative on the integer path
  int_exp,          \* pow: static_cast<int>(exponent)
  negative_result,  \* pow: whether the result is negated at the end
  result,           \* pow: the running product
  current_base,     \* pow: the running square
  abs_exp,          \* pow: the exponent bits still to process
  y,                \* asin: the Newton iterate
  iters,            \* the number of iterations of the current loop so far
  i,                \* precision tests: the sample index; asin: the loop index
  max_abs_error,    \* precision tests: the largest error so far
  sum_abs_error,    \* precision tests: the sum of the errors so far
  frames            \* concurrent calls: the frame of each thread's call

callVars == <<fn, pc, arg1, arg2, ret, path>>

trigVars == <<theta>>

powVars == <<base, int_exp, negative_result, result, current_base, abs_exp>>

testVars == <<i, max_abs_error, sum_abs_error>>

arcVars == <<y>>

threadVars == <<frames>>

vars == <<fn, pc, arg1, arg2, ret, path, theta, base, int_exp, negative_result,
          result, current_base, abs_exp, iters, i, max_abs_error, sum_abs_error,
          y, frames>>

\* the threads that call into the library
NumThreads == 2

Threads == 1..NumThreads

\* the frame of one call: its position, the function, the two parameters
\* (passed by value), up to three locals and the returned value
Frame ==
  [pc : STRING, fn : STRING, a : Int, b : Int, loc : Int \X Int \X Int, ret : Int]

\* a thread that is not inside a call
IdleFrame ==
  [pc |-> "idle", fn |-> "none", a |-> 0, b |-> 0, loc |-> <<0, 0, 0>>, ret |-> 0]

Init ==
  /\ fn = "none"
  /\ pc = "idle"
  /\ arg1 = 0
  /\ arg2 = 0
  /\ ret = 0
  /\ path = "none"
  /\ theta = 0
  /\ base = 0
  /\ int_exp = 0
  /\ negative_result = FALSE
  /\ result = 0
  /\ current_base = 0
  /\ abs_exp = 0
  /\ iters = 0
  /\ i = 0
  /\ max_abs_error = 0
  /\ sum_abs_error = 0
  /\ y = 0
  /\ frames = [t \in Threads |-> IdleFrame]

\* a call that returns at once
Return(f, a, b, r, p) ==
  /\ pc = "idle"
  /\ fn' = f
  /\ arg1' = a
  /\ arg2' = b
  /\ ret' = r
  /\ path' = p
  /\ pc' = "done"
  /\ UNCHANGED <<trigVars, powVars, iters, testVars, arcVars, threadVars>>

\* the floats next to f
Succ[f \in Int] == f + 1

Pred[f \in Int] == f - 1

Near[f \in Int] == {Pred[f], f, Succ[f]}

(***************************************************************************)
(* Calls of pow                                                            *)
(***************************************************************************)

\* the bases drawn: the multiples of 1/2 up to MaxBase + 1/2, 0.1f and the
\* float after 1
MaxBase == 3

PowBases ==
  {Dec[k, 2] : k \in -(2 * MaxBase + 1)..(2 * MaxBase + 1)}
    \cup {Dec[1, 10], Succ[f1], I2F[10]}

\* the exponents drawn: the integers up to MaxExp (beyond the 32 of the integer
\* path), the multiples of 1/4 up to MaxQuarter/4, 0.1f and 2.3f.  All are
\* far inside the range of int, where static_cast<int> is defined.
MaxExp == 34

MaxQuarter == 10

PowExps ==
  {I2F[n] : n \in -MaxExp..MaxExp}
    \cup {Dec[k, 4] : k \in -MaxQuarter..MaxQuarter}
    \cup {Dec[1, 10], Dec[23, 10]}

\* pow(b, exponent) up to its first return, or up to the head of the loop
PowCall(b, exponent) ==
  /\ pc = "idle"
  /\ fn' = "pow"
  /\ arg1' = b
  /\ arg2' = exponent
  /\ path' = PowBranch(b, exponent)
  /\ iters' = 0
  /\ IF PowBranch(b, exponent) = "int_loop"
     THEN /\ int_exp' = F2I[exponent]
          /\ negative_result' = (FLt[b, zero] /\ F2I[exponent] % 2 = 1)
          /\ base' = IF FLt[b, zero] THEN FNeg[b] ELSE b
          /\ result' = f1
          /\ current_base' = base'
          /\ abs_exp' = Abs[F2I[exponent]]
          /\ pc' = "pow_loop"
          /\ ret' = ret
     ELSE /\ ret' = PowReturn(b, exponent, PowBranch(b, exponent))
          /\ pc' = "done"
          /\ UNCHANGED powVars
  /\ UNCHANGED <<trigVars, testVars, arcVars, threadVars>>

\* PowLoopIter without the test of the exponent's last bit
MutPowLoopIter ==
  /\ pc = "pow_loop"
  /\ abs_exp > 0
  /\ result' = FMul[result, current_base]
  /\ current_base' = FMul[current_base, current_base]
  /\ abs_exp' = abs_exp \div 2
  /\ iters' = iters + 1
  /\ UNCHANGED <<callVars, trigVars, base, int_exp, negative_result, testVars, arcVars, threadVars>>

\* one iteration of while (abs_exp > 0)
PowLoopIter ==
  /\ pc = "pow_loop"
  /\ abs_exp > 0
  /\ result' = IF abs_exp % 2 = 1 THEN FMul[result, current_base] ELSE result
  /\ current_base' = FMul[current_base, current_base]
  /\ abs_exp' = abs_exp \div 2
  /\ iters' = iters + 1
  /\ UNCHANGED <<callVars, trigVars, base, int_exp, negative_result, testVars, arcVars, threadVars>>

\* the exit of the loop: the inversion for a negative exponent, and the sign
PowLoopExit ==
  /\ pc = "pow_loop"
  /\ abs_exp = 0
  /\ result' = IF int_exp < 0 THEN FDiv[f1, result] ELSE result
  /\ ret' = IF negative_result THEN FNeg[result'] ELSE result'
  /\ pc' = "done"
  /\ UNCHANGED <<fn, arg1, arg2, path, trigVars, base, int_exp, negative_result,
                 current_base, abs_exp, iters, testVars, arcVars, threadVars>>

NextPow ==
  \/ pc = "idle" /\ \E b \in PowBases, exponent \in PowExps : PowCall(b, exponent)
  \/ PowLoopIter
  \/ PowLoopExit

SpecPow == Init /\ [][NextPow]_vars

(***************************************************************************)
(* Calls of fmod, ceil, floor and round                                    *)
(***************************************************************************)

\* the operands drawn for fmod: the integers up to MaxOperand with the floats
\* next to them, the tenths up to MaxTenth/10, the threshold 25 and the floats
\* next to it, and values beyond it
MaxOperand == 7

MaxTenth == 5

FmodOperands ==
  UNION {Near[I2F[k]] : k \in -MaxOperand..MaxOperand}
    \cup {Dec[k, 10] : k \in -MaxTenth..MaxTenth}
    \cup Near[max_safe_value] \cup Near[FNeg[max_safe_value]]
    \cup {I2F[26], I2F[-26], I2F[1000], I2F[-1000]}

FmodCall(dividend, divisor) ==
  Return("fmod", dividend, divisor, fmod(dividend, divisor),
         FmodPath(dividend, divisor))

NextFmod ==
  pc = "idle" /\ \E dividend \in FmodOperands, divisor \in FmodOperands :
                   FmodCall(dividend, divisor)

SpecFmod == Init /\ [][NextFmod]_vars

\* the arguments drawn for ceil, floor and round: the multiples of 1/2 up to
\* MaxHalf/2 with the floats next to them, and the tenths up to MaxHalf/10
MaxHalf == 210

RoundArgs ==
  UNION {Near[Dec[k, 2]] : k \in -MaxHalf..MaxHalf}
    \cup {Dec[k, 10] : k \in -MaxHalf..MaxHalf}

CeilCall(x) == Return("ceil", x, 0, ceil(x), "none")

FloorCall(x) == Return("floor", x, 0, floor(x), "none")

RoundCall(x) == Return("round", x, 0, round(x), "none")

NextRounding ==
  \/ pc = "idle" /\ \E x \in RoundArgs : CeilCall(x)
  \/ pc = "idle" /\ \E x \in RoundArgs : FloorCall(x)
  \/ pc = "idle" /\ \E x \in RoundArgs : RoundCall(x)

SpecRounding == Init /\ [][NextRounding]_vars

(***************************************************************************)
(* Properties of pow                                                       *)
(***************************************************************************)

PowDone == pc = "done" /\ fn = "pow"

\* whether the float e is an integer of small magnitude, and that integer
IsIntegral(e) == IntCastDefined[e] /\ e = I2F[F2I[e]]

\* C3: pow(b, 0) is exactly 1 and pow(b, 1) is b itself, for every base drawn
\* (0, 1 and the negative bases included): both exponent checks come before
\* any check on the base.
C3_PowExponentZeroAndOne ==
  PowDone =>
    /\ arg2 = zero => (ret = f1 /\ path = "exp_0")
    /\ arg2 = f1 => (ret = arg1 /\ path = "exp_1")

\* pow(0, 0) has returned 1
C3_Witness ==
  /\ PowDone
  /\ arg1 = zero
  /\ arg2 = zero
  /\ ret = f1

\* the exact value of a power, on the odd part and the binary exponent of a
\* float: |f| = OddMant(f) * 2^OddExp(f) with OddMant(f) odd
RECURSIVE TwoAdic(_)
TwoAdic(m) == IF m = 0 \/ m % 2 = 1 THEN 0 ELSE 1 + TwoAdic(m \div 2)

OddMant(f) == Mant[f] \div 2^TwoAdic(Mant[f])

OddExp(f) == LsbExp[f] + TwoAdic(Mant[f])

\* 2^24: an odd part from here on has more than 24 bits and is no float's
TooWide == 2^24

\* a * b, or TooWide when the product is that large
MulCap(a, b) ==
  IF a = 0 \/ b = 0 THEN 0
  ELSE IF a >= TooWide \/ b >= TooWide \/ a > TooWide \div b THEN TooWide
  ELSE a * b

RECURSIVE IntPowCap(_, _)
IntPowCap(o, n) == IF n = 0 THEN 1 ELSE MulCap(o, IntPowCap(o, n - 1))

\* |b|^n is a normal float
PowerRepresentable(b, n) ==
  /\ IsFinite[b]
  /\ b # 0
  /\ IntPowCap(OddMant(b), n) < TooWide
  /\ OddExp(b) * n + BitLen[IntPowCap(OddMant(b), n)] - 1 >= -126
  /\ OddExp(b) * n + BitLen[IntPowCap(OddMant(b), n)] - 1 <= 127

\* the float |b|^n, when PowerRepresentable(b, n)
ExactPower(b, n) == RoundPack[1, OddExp(b) * n, IntPowCap(OddMant(b), n)]

\* b^n for an integer n, when PowerRepresentable(b, |n|): the exact power for
\* n > 0, the float quotient 1 / |b|^|n| for n < 0, negative for b < 0 and odd n
SignedPower(b, n) ==
  LET p == IF n < 0 THEN FDiv[f1, ExactPower(b, -n)] ELSE ExactPower(b, n)
  IN IF b < 0 /\ n % 2 = 1 THEN FNeg[p] ELSE p

\* C4: for an integral exponent n, 1 <= |n| <= 32, and a nonzero base whose
\* power |b|^|n| is a float, pow returns b^n exactly (1 / |b|^|n| for n < 0),
\* negated exactly when b < 0 and n is odd; in the loop
\* result * current_base^abs_exp = |b|^|n| at every iteration, and the loop
\* ends within 6 iterations.
C4_PowIntegerExponent ==
  /\ (PowDone /\ arg1 # zero /\ IsIntegral(arg2) /\ F2I[arg2] # 0
        /\ Abs[F2I[arg2]] <= 32 /\ PowerRepresentable(arg1, Abs[F2I[arg2]]))
       => ret = SignedPower(arg1, F2I[arg2])
  /\ (fn = "pow" /\ path = "int_loop") => iters <= 6
  /\ (pc = "pow_loop" /\ PowerRepresentable(arg1, Abs[int_exp]))
       => /\ MulCap(OddMant(result), IntPowCap(OddMant(current_base), abs_exp))
               = IntPowCap(OddMant(arg1), Abs[int_exp])
          /\ OddExp(result) + abs_exp * OddExp(current_base)
               = OddExp(arg1) * Abs[int_exp]
          /\ negative_result = (arg1 < 0 /\ int_exp % 2 = 1)

\* pow(-2, -5) has gone through three iterations of the loop and returned -1/32
C4_Witness ==
  /\ PowDone
  /\ path = "int_loop"
  /\ arg1 = I2F[-2]
  /\ arg2 = I2F[-5]
  /\ iters = 3
  /\ ret = FNeg[Dec[1, 32]]

\* C5: for base 0 and an exponent other than 0 and 1, pow returns 0 for a
\* positive exponent and the sentinel 1e38 for a negative one, from the
\* base-zero check; the closed forms 1/base and 1/(base*base) are never
\* reached with base 0.
C5_PowZeroBase ==
  PowDone =>
    /\ (arg1 = zero /\ arg2 # zero /\ arg2 # f1)
         => /\ path = "base_0"
            /\ ret = IF arg2 > zero THEN zero ELSE Sentinel1e38
    /\ path \in {"exp_m1", "exp_m2"} => arg1 # zero

\* pow(0, -1) has returned the sentinel
C5_Witness ==
  /\ PowDone
  /\ arg1 = zero
  /\ arg2 = I2F[-1]
  /\ ret = Sentinel1e38

\* C6: for a negative base and a non-integral exponent pow returns 0; for the
\* exponent 0.5 the 0 comes from sqrt's guard.
C6_PowNegativeBaseFractional ==
  (PowDone /\ arg1 < zero /\ ~IsIntegral(arg2))
    => /\ ret = zero
       /\ path = IF arg2 = f0_5 THEN "exp_half" ELSE "neg_base"

\* pow(-2, 0.5) has returned 0 through sqrt, and pow(-2, 0.25) through the
\* last branch
C6_Witness ==
  /\ PowDone
  /\ arg1 = I2F[-2]
  /\ arg2 \in {f0_5, Dec[1, 4]}
  /\ path \in {"exp_half", "neg_base"}
  /\ ret = zero

\* C26: pow's last branch for a negative base (return 0) is reached with a
\* non-integral exponent only: for a negative base and an integral exponent
\* an earlier branch has returned.
C26_NegativeBaseBranchFractionalOnly ==
  (PowDone /\ path = "neg_base") => ~IsIntegral(arg2)

(***************************************************************************)
(* Properties of fmod                                                      *)
(***************************************************************************)

FmodDone == pc = "done" /\ fn = "fmod"

\* C7: for a nonzero divisor and |dividend| >= |divisor|, fmod returns the
\* truncated remainder: the value of std::fmod, zero or of the sign of the
\* dividend, and smaller than the divisor in magnitude, on the fast path as
\* on the others.
C7_FmodIsTruncatedRemainder ==
  (FmodDone /\ arg2 # zero /\ Mag[arg1] >= Mag[arg2])
    => /\ ret = StdFmod[arg1, arg2]
       /\ ret = zero \/ Sign[ret] = Sign[arg1]
       /\ Mag[ret] < Mag[arg2]

\* C8: fmod returns 0 for a zero divisor, from the first check, and the
\* dividend itself whenever |dividend| < |divisor|, for small and large
\* operands alike.
C8_FmodGuards ==
  FmodDone =>
    /\ arg2 = zero => (ret = zero /\ path = "zero_divisor")
    /\ (arg2 # zero /\ Mag[arg1] < Mag[arg2])
         => (ret = arg1 /\ path = "small_dividend")

\* fmod(7, 0) has returned 0 and fmod(26, -1000) has returned 26
C8_Witness ==
  /\ FmodDone
  /\ \/ arg1 = I2F[7] /\ arg2 = zero /\ ret = zero
     \/ arg1 = I2F[26] /\ arg2 = I2F[-1000] /\ ret = I2F[26]

(***************************************************************************)
(* Properties of ceil, floor and round                                     *)
(***************************************************************************)

\* the integers that bound the arguments drawn
MaxInteger == 128

Integers128 == -MaxInteger..MaxInteger

\* const float test_range = 100.0f of the rounding test
test_range_rounding == I2F[100]

InTestRange(x) == FLe[FNeg[test_range_rounding], x] /\ FLe[x, test_range_rounding]

\* r is the float of the smallest integer >= x
IsCeilOf(x, r) ==
  \E k \in Integers128 : r = I2F[k] /\ FLe[x, I2F[k]] /\ FLt[I2F[k - 1], x]

\* r is the float of the largest integer <= x
IsFloorOf(x, r) ==
  \E k \in Integers128 : r = I2F[k] /\ FLe[I2F[k], x] /\ FLt[x, I2F[k + 1]]

\* C9: for x in [-100, 100], ceil(x) is the smallest integer >= x and floor(x)
\* the largest integer <= x, and ceil(x) - floor(x) is 0 for an integer x and
\* 1 otherwise, for negative and non-negative x.
C9_CeilFloor ==
  (pc = "done" /\ InTestRange(arg1)) =>
    /\ fn = "ceil" =>
         /\ IsCeilOf(arg1, ret)
         /\ FSub[ret, floor(arg1)] = IF IsIntegral(arg1) THEN zero ELSE f1
    /\ fn = "floor" =>
         /\ IsFloorOf(arg1, ret)
         /\ FSub[ceil(arg1), ret] = IF IsIntegral(arg1) THEN zero ELSE f1

\* floor(-2.3) has returned -3
C9_Witness ==
  /\ pc = "done"
  /\ fn = "floor"
  /\ arg1 = Dec[-23, 10]
  /\ ret = I2F[-3]

\* r is the float of the integer nearest to x, of the one away from zero when
\* x is halfway between two integers
IsRoundHalfAwayOf(x, r) ==
  \E k \in Integers128 :
    /\ r = I2F[k]
    /\ \/ FLt[Dec[2 * k - 1, 2], x] /\ FLt[x, Dec[2 * k + 1, 2]]
       \/ x = Dec[2 * k - 1, 2] /\ x > zero
       \/ x = Dec[2 * k + 1, 2] /\ x < zero

\* C10: round rounds half away from zero: round(k + 0.5) = k + 1 and
\* round(-(k + 0.5)) = -(k + 1) for every integer k >= 0, and every other x
\* goes to its nearest integer.
C10_RoundHalfAwayFromZero ==
  (pc = "done" /\ fn = "round" /\ Mag[arg1] <= Mag[test_range_rounding])
    => IsRoundHalfAwayOf(arg1, ret)

\* x is halfway between the integers k and k + 1
IsTie(x, k) == x = Dec[2 * k + 1, 2]

MaxAngle == 40

Angles ==
  {Dec[k, 2] : k \in -MaxAngle..MaxAngle}
    \cup {I2F[1000000000], I2F[-1000000000]}

TrigCall(f, t) ==
  /\ pc = "idle"
  /\ fn' = f
  /\ arg1' = t
  /\ theta' = t
  /\ pc' = "reduce_up"
  /\ UNCHANGED <<arg2, ret, path, powVars, iters, testVars, arcVars, threadVars>>

SinCall(t) == TrigCall("sin", t)

CosCall(t) == TrigCall("cos", t)

\* one iteration of while (theta < -pi) theta += two_pi
ReduceUpIter(f) ==
  /\ fn = f
  /\ pc = "reduce_up"
  /\ ReduceUpCond[theta]
  /\ theta' = ReduceUpBody[theta]
  /\ UNCHANGED <<callVars, powVars, iters, testVars, arcVars, threadVars>>

\* the exit of the first loop
ReduceUpExit(f) ==
  /\ fn = f
  /\ pc = "reduce_up"
  /\ ~ReduceUpCond[theta]
  /\ pc' = "reduce_down"
  /\ UNCHANGED <<fn, arg1, arg2, ret, path, theta, powVars, iters, testVars, arcVars, threadVars>>

\* one iteration of while (theta > pi) theta -= two_pi
ReduceDownIter(f) ==
  /\ fn = f
  /\ pc = "reduce_down"
  /\ ReduceDownCond[theta]
  /\ theta' = ReduceDownBody[theta]
  /\ UNCHANGED <<callVars, powVars, iters, testVars, arcVars, threadVars>>

SinReduceUpIter == ReduceUpIter("sin")

SinReduceUpExit == ReduceUpExit("sin")

SinReduceDownIter == ReduceDownIter("sin")

\* the exit of sin's second loop, and the parabola
SinReduceDownExit ==
  /\ fn = "sin"
  /\ pc = "reduce_down"
  /\ ~ReduceDownCond[theta]
  /\ ret' = SinPoly[theta]
  /\ pc' = "done"
  /\ UNCHANGED <<fn, arg1, arg2, path, theta, powVars, iters, testVars, arcVars, threadVars>>

\* CosReduceDownExit without the conditional subtraction of two_pi
MutCosReduceDownExit ==
  /\ fn = "cos"
  /\ pc = "reduce_down"
  /\ ~ReduceDownCond[theta]
  /\ theta' = FAdd[theta, half_pi]
  /\ ret' = CosPoly[theta']
  /\ pc' = "done"
  /\ UNCHANGED <<fn, arg1, arg2, path, powVars, iters, testVars, arcVars, threadVars>>

CosReduceUpIter == ReduceUpIter("cos")

CosReduceUpExit == ReduceUpExit("cos")

CosReduceDownIter == ReduceDownIter("cos")

\* the exit of cos's second loop, the phase shift and the parabola
CosReduceDownExit ==
  /\ fn = "cos"
  /\ pc = "reduce_down"
  /\ ~ReduceDownCond[theta]
  /\ theta' = CosShift[theta]
  /\ ret' = CosPoly[theta']
  /\ pc' = "done"
  /\ UNCHANGED <<fn, arg1, arg2, path, powVars, iters, testVars, arcVars, threadVars>>

NextTrig ==
  \/ pc = "idle" /\ \E t \in Angles : SinCall(t)
  \/ pc = "idle" /\ \E t \in Angles : CosCall(t)
  \/ SinReduceUpIter
  \/ SinReduceUpExit
  \/ SinReduceDownIter
  \/ SinReduceDownExit
  \/ CosReduceUpIter
  \/ CosReduceUpExit
  \/ CosReduceDownIter
  \/ CosReduceDownExit

SpecTrig == Init /\ [][NextTrig]_vars

\* f lies in the closed interval [lo, hi] of floats
InClosed(f, lo, hi) == FGe[f, lo] /\ FLe[f, hi]

\* C25: when the two reduction loops of sin or cos have exited, theta lies in
\* [-pi, pi]; in cos it lies in [-pi, pi] again after pi/2 is added and two_pi
\* is subtracted once if the sum exceeds pi, so that the parabola of either
\* function is evaluated on an argument of [-pi, pi] only.
C25_ReducedAngleInRange ==
  /\ (fn \in {"sin", "cos"} /\ pc = "reduce_down" /\ ~ReduceDownCond[theta]) =>
       InClosed(theta, FNeg[pi], pi)
  /\ (fn \in {"sin", "cos"} /\ pc = "done") =>
       InClosed(theta, FNeg[pi], pi)

C25_Witness ==
  /\ fn = "cos" /\ pc = "done"
  /\ arg1 = I2F[9] /\ FLt[theta, zero] /\ ret = CosPoly[theta]

\* C2: every call of sin and cos ends: each iteration of either reduction
\* loop changes theta, so that the loop is left after finitely many iterations.
C2_ReductionLoopsProgress ==
  /\ (pc = "reduce_up" /\ ReduceUpCond[theta]) => ReduceUpBody[theta] # theta
  /\ (pc = "reduce_down" /\ ReduceDownCond[theta]) => ReduceDownBody[theta] # theta

(***************************************************************************)
(* SinPrecisionTest and CosPrecisionTest                                   *)
(***************************************************************************)

\* const int num_samples = 10000
num_samples == 10000

\* const float test_range = 2.0f * M_PI: the product is rounded to float, and
\* is the double of the float nearest to pi
test_range == FMul[f2, pi]

\* float angle = -test_range + (2.0f * test_range * i / num_samples)
Angle[k \in Int] ==
  FAdd[FNeg[test_range],
       FDiv[FMul[FMul[f2, test_range], I2F[k]], I2F[num_samples]]]

\* Errors are kept in units of 2^-24.  pi, 2 pi and pi/2 in these units:
FixOne == 2^24

PiFix == 52707179

TwoPiFix == 105414357

HalfPiFix == 26353589

\* |f| * 2^24 rounded down, with the sign of f, for |f| < 128
ToFix[f \in Int] ==
  LET e == LsbExp[f] + 24
  IN IF e >= 0 THEN Sign[f] * (Mant[f] * 2^e)
     ELSE IF -e >= 31 THEN 0
     ELSE Sign[f] * (Mant[f] \div 2^(-e))

\* a * b / 2^24 for 0 <= a, b < 2^26, from 13-bit halves
FixMul[a \in Int, b \in Int] ==
  LET ah == a \div 8192
      al == a % 8192
      bh == b \div 8192
      bl == b % 8192
  IN 4 * ah * bh + (ah * bl + al * bh) \div 2048 + (al * bl) \div FixOne

\* the sine of a, 0 <= a <= pi/2, by its Taylor series up to a^13/13!
SinTaylor[a \in Int] ==
  LET x2 == FixMul[a, a]
      p6 == FixOne - x2 \div 156
      p5 == FixOne - FixMul[x2, p6] \div 110
      p4 == FixOne - FixMul[x2, p5] \div 72
      p3 == FixOne - FixMul[x2, p4] \div 42
      p2 == FixOne - FixMul[x2, p3] \div 20
      p1 == FixOne - FixMul[x2, p2] \div 6
  IN FixMul[a, p1]

\* the exact sine and cosine (std::sin, std::cos), within 3 units of 2^-24
SinRef[x \in Int] ==
  LET t0 == x % TwoPiFix
      t1 == IF t0 > PiFix THEN t0 - TwoPiFix ELSE t0
      t2 == IF t1 > HalfPiFix THEN PiFix - t1
            ELSE IF t1 < -HalfPiFix THEN -PiFix - t1 ELSE t1
  IN IF t2 >= 0 THEN SinTaylor[t2] ELSE -SinTaylor[-t2]

CosRef[x \in Int] == SinRef[x + HalfPiFix]

TestStart(test) ==
  /\ pc = "idle"
  /\ fn' = test
  /\ pc' = "test_loop"
  /\ i' = 0
  /\ max_abs_error' = 0
  /\ sum_abs_error' = 0
  /\ UNCHANGED <<arg1, arg2, ret, path, trigVars, powVars, iters, arcVars, threadVars>>

\* one iteration of the sample loop; arg1 and ret keep the sample's angle and
\* the fast result
TestIter(test, fast_result, std_fix) ==
  /\ fn = test
  /\ pc = "test_loop"
  /\ i < num_samples
  /\ arg1' = Angle[i]
  /\ ret' = fast_result
  /\ max_abs_error' = Max[max_abs_error, Abs[ToFix[fast_result] - std_fix]]
  /\ sum_abs_error' = sum_abs_error + Abs[ToFix[fast_result] - std_fix]
  /\ i' = i + 1
  /\ UNCHANGED <<fn, pc, arg2, path, trigVars, powVars, iters, arcVars, threadVars>>

\* the end of the loop, where the thresholds are asserted
TestEnd(test) ==
  /\ fn = test
  /\ pc = "test_loop"
  /\ i = num_samples
  /\ pc' = "test_done"
  /\ UNCHANGED <<fn, arg1, arg2, ret, path, trigVars, powVars, iters, testVars, arcVars, threadVars>>

SinTestStart == TestStart("SinPrecisionTest")

SinTestIter ==
  TestIter("SinPrecisionTest", sin[Angle[i]], SinRef[ToFix[Angle[i]]])

SinTestEnd == TestEnd("SinPrecisionTest")

CosTestStart == TestStart("CosPrecisionTest")

CosTestIter ==
  TestIter("CosPrecisionTest", cos[Angle[i]], CosRef[ToFix[Angle[i]]])

CosTestEnd == TestEnd("CosPrecisionTest")

NextTrigTest ==
  \/ SinTestStart
  \/ SinTestIter
  \/ SinTestEnd
  \/ CosTestStart
  \/ CosTestIter
  \/ CosTestEnd

SpecTrigTest == Init /\ [][NextTrigTest]_vars

\* EXPECT_LT(max_abs_error, 0.01) and EXPECT_LT(avg_abs_error, 0.001), in
\* units of 2^-24, rounded down
MaxErrorThreshold == 167772

AvgErrorThreshold == 16777

\* C1: over the 10,000 samples of [-2 pi, 2 pi], sin and cos are each within
\* 0.01 of the exact sine and cosine, and the mean of the absolute errors is
\* below 0.001.  16 units of 2^-24 per sample cover the error of the
\* reference and of the conversion.
C1_SinCosErrorBounds ==
  /\ fn \in {"SinPrecisionTest", "CosPrecisionTest"}
       => max_abs_error + 16 < MaxErrorThreshold
  /\ pc = "test_done"
       => sum_abs_error + 16 * num_samples < AvgErrorThreshold * num_samples

\* a test has run over all its samples and has seen an error above 0.001
C1_Witness ==
  /\ pc = "test_done"
  /\ i = num_samples
  /\ max_abs_error > AvgErrorThreshold
  /\ sum_abs_error > 0

(***************************************************************************)
(* Calls of sqrt, exp, log and the hyperbolic functions                    *)
(***************************************************************************)

\* the arguments drawn: the whole numbers up to MaxWhole and the eighths up
\* to MaxEighth/8, each with the floats next to it
MaxWhole == 90

MaxEighth == 48

ExpLogArgs ==
  UNION {Near[I2F[k]] : k \in -MaxWhole..MaxWhole}
    \cup UNION {Near[Dec[k, 8]] : k \in -MaxEighth..MaxEighth}

\* the return statement a call of sqrt, exp or log leaves by
SqrtPath[number \in Int] ==
  IF FLe[number, zero] THEN "nonpositive" ELSE "newton"

ExpPath[x \in Int] ==
  IF FGt[x, f88] THEN "overflow"
  ELSE IF FLt[x, fm87] THEN "underflow"
  ELSE "series"

LogPath[x \in Int] ==
  IF FLe[x, zero] THEN "nonpositive"
  ELSE IF FEq[x, f1] THEN "one"
  ELSE "extract"

\* sqrt with number < 0.0f for its guard
MutSqrtCall(number) ==
  Return("sqrt", number, 0,
         IF FLt[number, zero] THEN zero ELSE SqrtNewton[number],
         IF FLt[number, zero] THEN "nonpositive" ELSE "newton")

SqrtCall(number) ==
  Return("sqrt", number, 0, sqrt[number], SqrtPath[number])

\* exp without its underflow clamp
MutExpCall(x) ==
  Return("exp", x, 0,
         IF FGt[x, f88] THEN Sentinel1e38 ELSE ExpSeries[x],
         IF FGt[x, f88] THEN "overflow" ELSE "series")

ExpCall(x) == Return("exp", x, 0, exp[x], ExpPath[x])

\* log with x < 0.0f for its first guard and without its second
MutLogCall(x) ==
  Return("log", x, 0,
         IF FLt[x, zero] THEN FNeg[Sentinel1e38] ELSE LogSeries[x],
         IF FLt[x, zero] THEN "nonpositive" ELSE "extract")

\* log taking x itself for the mantissa, its exponent field kept
MutLogMantissa(x) ==
  Return("log", x, 0,
         IF FLe[x, zero] THEN FNeg[Sentinel1e38]
         ELSE IF FEq[x, f1] THEN zero
         ELSE FAdd[FMul[I2F[LogExponent[x]], ln2],
                   LogPoly[LogT[x], FMul[LogT[x], LogT[x]]]],
         LogPath[x])

LogCall(x) == Return("log", x, 0, log[x], LogPath[x])

\* the largest finite float, 0x7F7FFFFF
MaxFloat == InfBits - 1

\* a float whose square overflows to infinity (about 1e20)
Huge == FMul[FMul[f1e7, f1e7], I2F[1000000]]

SinhCall(x) == Return("sinh", x, 0, sinh[x], "none")

\* cosh returning sinh's expressions
MutCoshCall(x) == Return("cosh", x, 0, sinh[x], "none")

CoshCall(x) == Return("cosh", x, 0, cosh[x], "none")

\* the branch of tanh that returns for x
TanhPath[x \in Int] ==
  IF FGt[x, f5] THEN "upper"
  ELSE IF FLt[x, FNeg[f5]] THEN "lower"
  ELSE IF FLt[FAbs[x], f0_5] THEN "series"
  ELSE "exp"

\* tanh without its two saturation returns
MutTanhCall(x) ==
  Return("tanh", x, 0,
         IF FLt[FAbs[x], f0_5] THEN TanhSeries[x, FMul[x, x]]
         ELSE TanhOfExp[exp[FMul[f2, x]]],
         TanhPath[x])

TanhCall(x) == Return("tanh", x, 0, tanh[x], TanhPath[x])

AsinhCall(x) == Return("asinh", x, 0, asinh[x], "none")

\* the branch of acosh that returns for x
AcoshPath[x \in Int] ==
  IF FLt[x, f1] THEN "invalid"
  ELSE IF FLt[x, f1_5] THEN "series"
  ELSE "log"

\* acosh without the guard x < 1
MutAcoshCall(x) ==
  Return("acosh", x, 0,
         IF FLt[x, f1_5]
           THEN AcoshSeries[FSub[x, f1], sqrt[FMul[f2, FSub[x, f1]]]]
         ELSE log[FAdd[x, sqrt[FSub[FMul[x, x], f1]]]],
         IF FLt[x, f1_5] THEN "series" ELSE "log")

AcoshCall(x) == Return("acosh", x, 0, acosh[x], AcoshPath[x])

\* the branch of atanh that returns for x
AtanhPath[x \in Int] ==
  IF FGe[FAbs[x], f1] THEN "invalid"
  ELSE IF FLt[FAbs[x], f0_5] THEN "series"
  ELSE "log"

AtanhCall(x) == Return("atanh", x, 0, atanh[x], AtanhPath[x])

NextExpLog ==
  \/ pc = "idle" /\ \E x \in ExpLogArgs \cup {MaxFloat} : SqrtCall(x)
  \/ pc = "idle" /\ \E x \in ExpLogArgs : ExpCall(x)
  \/ pc = "idle" /\ \E x \in ExpLogArgs \cup {HiddenBit, 254 * HiddenBit, MaxFloat} :
        LogCall(x)
  \/ pc = "idle" /\ \E x \in ExpLogArgs : SinhCall(x)
  \/ pc = "idle" /\ \E x \in ExpLogArgs : CoshCall(x)
  \/ pc = "idle" /\ \E x \in ExpLogArgs : TanhCall(x)
  \/ pc = "idle" /\ \E x \in ExpLogArgs : AsinhCall(x)
  \/ pc = "idle" /\ \E x \in ExpLogArgs \cup {Huge} : AcoshCall(x)
  \/ pc = "idle" /\ \E x \in ExpLogArgs : AtanhCall(x)

SpecExpLog == Init /\ [][NextExpLog]_vars

(***************************************************************************)
(* Properties of sqrt, exp, log and the hyperbolic functions               *)
(***************************************************************************)

\* C12: log returns -1e38 for every x <= 0 and 0 for x == 1, in both cases
\* by a return statement ahead of the extraction of exponent and mantissa
C12_LogGuards ==
  (pc = "done" /\ fn = "log") =>
    /\ FLe[arg1, zero] => ret = FNeg[Sentinel1e38] /\ path = "nonpositive"
    /\ FEq[arg1, f1] => ret = zero /\ path = "one"

C12_Witness ==
  /\ pc = "done" /\ fn = "log"
  /\ FLt[arg1, zero] /\ ret = FNeg[Sentinel1e38]

\* the float 2^n, for n of a normal float
IsPowerOfTwo(f, n) ==
  /\ n + Bias \in 1..254
  /\ f = (n + Bias) * HiddenBit

\* C13: exp returns 1e38 for x > 88 and 0 for x < -87; for x in [-87, 88] it
\* returns poly * 2^n, the product of the polynomial in r and the float whose
\* bits are (n + 127) << 23, and that product is finite and greater than 0
C13_ExpClampsAndSeries ==
  (pc = "done" /\ fn = "exp") =>
    /\ FGt[arg1, f88] => ret = Sentinel1e38
    /\ FLt[arg1, fm87] => ret = zero
    /\ (FGe[arg1, fm87] /\ FLe[arg1, f88]) =>
         /\ IsPowerOfTwo(ExpBits[ExpN[arg1]], ExpN[arg1])
         /\ ret = FMul[ExpPoly[ExpR[arg1]], ExpBits[ExpN[arg1]]]
         /\ IsFinite[ret]
         /\ FGt[ret, zero]

C13_Witness ==
  /\ pc = "done" /\ fn = "exp"
  /\ arg1 = fm87 /\ path = "series" /\ FGt[ret, zero]

\* C27: for every x that passes exp's clamps, n is within -126..127, the word
\* (n + 127) << 23 is the bit pattern of the normal float 2^n, n is within
\* 0.5 of x / ln2, and r is within [-ln2 / 2, ln2 / 2].
C27_ExpReductionInRange ==
  (pc = "done" /\ fn = "exp" /\ path = "series") =>
    /\ ExpN[arg1] \in -126..127
    /\ ExpBits[ExpN[arg1]] \in HiddenBit..(254 * HiddenBit)
    /\ Frac[ExpBits[ExpN[arg1]]] = 0
    /\ ExpField[ExpBits[ExpN[arg1]]] = ExpN[arg1] + Bias
    /\ InClosed(FSub[ExpFx[arg1], I2F[ExpN[arg1]]], FNeg[f0_5], f0_5)
    /\ InClosed(ExpR[arg1], FNeg[FMul[f0_5, ln2]], FMul[f0_5, ln2])

C27_Witness ==
  /\ pc = "done" /\ fn = "exp" /\ path = "series"
  /\ arg1 = f88 /\ ExpN[arg1] = 127 /\ FLt[ExpR[arg1], zero]

\* C19: sqrt returns 0 for every x <= 0, by the return statement ahead of
\* the initial guess and the Newton-Raphson steps
C19_SqrtNonPositive ==
  (pc = "done" /\ fn = "sqrt" /\ FLe[arg1, zero]) =>
    ret = zero /\ path = "nonpositive"

C19_Witness ==
  /\ pc = "done" /\ fn = "sqrt"
  /\ arg1 = zero /\ ret = zero

\* C29: for every positive finite input, with bit pattern b in
\* 1..0x7F7FFFFF, sqrt's initial guess 0x1FBD1DF5 + (b >> 1) lies in
\* 0x1FBD1DF5..0x5F7D1DF4 and is a positive normal float; neither of the two
\* Newton-Raphson steps divides by zero, and the returned value is positive.
C29_SqrtGuessAndNewton ==
  (pc = "done" /\ fn = "sqrt" /\ path = "newton") =>
    /\ arg1 \in 1..MaxFloat
    /\ SqrtGuess[arg1] \in SqrtMagic..(SqrtMagic + (MaxFloat \div 2))
    /\ ExpField[SqrtGuess[arg1]] \in 1..254
    /\ SqrtGuess[arg1] # zero
    /\ SqrtStep[arg1, SqrtGuess[arg1]] # zero
    /\ ret = SqrtStep[arg1, SqrtStep[arg1, SqrtGuess[arg1]]]
    /\ FGt[ret, zero]

C29_Witness ==
  /\ pc = "done" /\ fn = "sqrt" /\ path = "newton"
  /\ arg1 = MaxFloat
  /\ SqrtGuess[arg1] = SqrtMagic + (MaxFloat \div 2)
  /\ FGt[ret, zero]

\* C30: for every positive normal x, with exponent field E in 1..254 and
\* fraction bits M, log takes exponent = E - 127 and the mantissa with the
\* bits M under the exponent field 127, so that mantissa is in [1, 2),
\* x = mantissa * 2^exponent and t is in [0, 1/3); for a power of two
\* x = 2^k the series term is 0 and log returns k * ln2.
C30_LogExtraction ==
  (pc = "done" /\ fn = "log" /\ ExpField[arg1] \in 1..254 /\ FGt[arg1, zero]) =>
    /\ path = "extract" =>
         /\ LogExponent[arg1] = ExpField[arg1] - 127
         /\ Frac[LogMantissa[arg1]] = Frac[arg1]
         /\ ExpField[LogMantissa[arg1]] = 127
         /\ FGe[LogMantissa[arg1], f1] /\ FLt[LogMantissa[arg1], f2]
         /\ FMul[LogMantissa[arg1], ExpBits[LogExponent[arg1]]] = arg1
         /\ FGe[LogT[LogMantissa[arg1]], zero]
         /\ FLt[LogT[LogMantissa[arg1]], f1_3]
         /\ ret = LogSeries[arg1]
    /\ Frac[arg1] = 0 =>
         /\ LogT[LogMantissa[arg1]] = zero
         /\ LogPoly[zero, zero] = zero
         /\ ret = FMul[I2F[LogExponent[arg1]], ln2]

C30_Witness ==
  /\ pc = "done" /\ fn = "log" /\ path = "extract"
  /\ arg1 = I2F[64] /\ ret = FMul[I2F[6], ln2]

\* C20: exp(0) is 1 (with n = 0, r = 0 and the bits 127 << 23), log(1),
\* sinh(0), tanh(0), acosh(1) and atanh(0) are 0, and cosh(0) is 1
C20_IdentityPoints ==
  pc = "done" =>
    /\ (fn = "exp" /\ arg1 = zero) =>
         /\ ExpN[arg1] = 0
         /\ ExpR[arg1] = zero
         /\ ExpBits[ExpN[arg1]] = Bias * HiddenBit
         /\ ret = f1
    /\ (fn = "log" /\ arg1 = f1) => ret = zero
    /\ (fn = "sinh" /\ arg1 = zero) => ret = zero
    /\ (fn = "cosh" /\ arg1 = zero) => ret = f1
    /\ (fn = "tanh" /\ arg1 = zero) => ret = zero
    /\ (fn = "acosh" /\ arg1 = f1) => ret = zero
    /\ (fn = "atanh" /\ arg1 = zero) => ret = zero

C20_Witness ==
  /\ pc = "done" /\ fn = "cosh"
  /\ arg1 = zero /\ ret = f1

(***************************************************************************)
(* Calls of tan, asin, acos and atan2                                      *)
(***************************************************************************)

\* the angles drawn for tan: the eighths up to MaxAngleEighth/8 and the
\* floats at and next to +-half_pi
MaxAngleEighth == 80

TanArgs ==
  {Dec[k, 8] : k \in -MaxAngleEighth..MaxAngleEighth}
    \cup Near[half_pi] \cup Near[FNeg[half_pi]]

\* tan without its check of cos_val
MutTanCall(t) == Return("tan", t, 0, FDiv[sin[t], cos[t]], "quotient")

TanCall(t) == Return("tan", t, 0, tan[t], TanPath[cos[t]])

\* the arguments drawn for asin and acos: the sixteenths up to
\* MaxSixteenth/16 and +-1e-7f, each with the floats next to it
MaxSixteenth == 40

AsinArgs ==
  UNION {Near[Dec[k, 16]] : k \in -MaxSixteenth..MaxSixteenth}
    \cup Near[f1em7] \cup Near[FNeg[f1em7]]

AsinCall(x) ==
  IF AsinPath[x] # "newton"
  THEN Return("asin", x, 0, asin[x], AsinPath[x])
  ELSE /\ pc = "idle"
       /\ fn' = "asin"
       /\ arg1' = x
       /\ y' = AsinGuess[x]
       /\ i' = 0
       /\ pc' = "asin_loop"
       /\ UNCHANGED <<arg2, ret, path, trigVars, powVars, iters,
                      max_abs_error, sum_abs_error, threadVars>>

\* one iteration of asin's loop, with i < 4 for its bound
MutAsinIter ==
  /\ pc = "asin_loop"
  /\ i < 4 /\ ~FLt[FAbs[cos[y]], f1em7]
  /\ y' = AsinNewton[arg1, y]
  /\ i' = i + 1
  /\ iters' = iters + 1
  /\ UNCHANGED <<callVars, trigVars, powVars, max_abs_error, sum_abs_error, threadVars>>

\* one iteration of asin's loop
AsinIter ==
  /\ pc = "asin_loop"
  /\ AsinContinue[y, i]
  /\ y' = AsinNewton[arg1, y]
  /\ i' = i + 1
  /\ iters' = iters + 1
  /\ UNCHANGED <<callVars, trigVars, powVars, max_abs_error, sum_abs_error, threadVars>>

\* the loop ends, by its bound or by the break, and asin returns y
AsinExit ==
  /\ pc = "asin_loop"
  /\ ~AsinContinue[y, i]
  /\ ret' = y
  /\ path' = IF i < 3 THEN "break" ELSE "loop_end"
  /\ pc' = "done"
  /\ UNCHANGED <<fn, arg1, arg2, trigVars, powVars, iters, testVars, arcVars, threadVars>>

AcosCall(x) == Return("acos", x, 0, acos[x], AsinPath[x])

\* the coordinates drawn for atan2: the whole numbers up to MaxCoord, the
\* powers of ten 10^k and 10^-k up to MaxDecade with either sign, and the
\* floats at and next to +-1e-7f
MaxCoord == 3

MaxDecade == 8

Atan2Coords ==
  {I2F[k] : k \in -MaxCoord..MaxCoord}
    \cup UNION {{I2F[10^k], I2F[-(10^k)], Dec[1, 10^k], Dec[-1, 10^k]} :
                  k \in 1..MaxDecade}
    \cup Near[f1em7] \cup Near[FNeg[f1em7]]

\* atan2 without its first special case
MutAtan2Call(yy, x) ==
  Return("atan2", yy, x,
         IF FLt[FAbs[x], f1em7]
         THEN (IF FGe[yy, zero] THEN HalfPiReturn ELSE MinusHalfPiReturn)
         ELSE Atan2Adjust[yy, x, Atan2Angle[FAbs[yy], FAbs[x]]],
         IF FLt[FAbs[x], f1em7] THEN "vertical" ELSE "quotient")

\* atan2 with 1e-8f in place of 1e-7f in its two special cases
MutAtan2Threshold(yy, x) ==
  Return("atan2", yy, x,
         IF FLt[FAbs[x], Dec[1, 10^8]] /\ FLt[FAbs[yy], Dec[1, 10^8]] THEN zero
         ELSE IF FLt[FAbs[x], Dec[1, 10^8]]
           THEN (IF FGe[yy, zero] THEN HalfPiReturn ELSE MinusHalfPiReturn)
         ELSE Atan2Adjust[yy, x, Atan2Angle[FAbs[yy], FAbs[x]]],
         IF FLt[FAbs[x], Dec[1, 10^8]] /\ FLt[FAbs[yy], Dec[1, 10^8]] THEN "origin"
         ELSE IF FLt[FAbs[x], Dec[1, 10^8]] THEN "vertical"
         ELSE "quotient")

Atan2Call(yy, x) ==
  Return("atan2", yy, x, atan2[yy, x], Atan2Path[yy, x])

NextArc ==
  \/ pc = "idle" /\ \E t \in TanArgs : TanCall(t)
  \/ pc = "idle" /\ \E x \in AsinArgs : AsinCall(x)
  \/ AsinIter
  \/ AsinExit
  \/ pc = "idle" /\ \E x \in AsinArgs : AcosCall(x)
  \/ pc = "idle" /\ \E yy \in Atan2Coords, x \in Atan2Coords : Atan2Call(yy, x)

SpecArc == Init /\ [][NextArc]_vars

\* C22: acosh returns 0 for every x < 1 and atanh returns 0 for every x with
\* |x| >= 1; past the guards acosh takes sqrt of 2 * (x - 1) >= 0 or of
\* x * x - 1 >= 0 only, log is never handed an argument <= 0, and atanh never
\* divides by 1 - x = 0.
C22_InverseHyperbolicGuards ==
  /\ (pc = "done" /\ fn = "acosh") =>
       /\ FLt[arg1, f1] => (path = "invalid" /\ ret = zero)
       /\ path = "series" => FGe[FMul[f2, FSub[arg1, f1]], zero]
       /\ path = "log" =>
            /\ FGe[FSub[FMul[arg1, arg1], f1], zero]
            /\ ~FLe[FAdd[arg1, sqrt[FSub[FMul[arg1, arg1], f1]]], zero]
  /\ (pc = "done" /\ fn = "atanh") =>
       /\ FGe[FAbs[arg1], f1] => (path = "invalid" /\ ret = zero)
       /\ path = "log" =>
            /\ FSub[f1, arg1] # zero
            /\ ~FLe[FDiv[FAdd[f1, arg1], FSub[f1, arg1]], zero]

C22_Witness ==
  /\ pc = "done" /\ fn = "atanh"
  /\ arg1 = FNeg[f1] /\ path = "invalid" /\ ret = zero

\* C23: sinh, asinh and atanh are odd, f(-x) = -f(x) exactly, and cosh is
\* even, cosh(-x) = cosh(x) exactly, for every x.
C23_OddAndEven ==
  pc = "done" =>
    /\ fn = "sinh" => sinh[FNeg[arg1]] = FNeg[ret]
    /\ fn = "asinh" => asinh[FNeg[arg1]] = FNeg[ret]
    /\ fn = "atanh" => atanh[FNeg[arg1]] = FNeg[ret]
    /\ fn = "cosh" => cosh[FNeg[arg1]] = ret

\* C21: tanh returns exactly 1 for every x > 5 and exactly -1 for every
\* x < -5, the Taylor polynomial for |x| < 0.5 and the quotient
\* (e^(2x) - 1) / (e^(2x) + 1) for 0.5 <= |x| <= 5, both ends included, and
\* its result lies in [-1, 1] for every x.
C21_TanhSaturates ==
  (pc = "done" /\ fn = "tanh") =>
    /\ FGt[arg1, f5] => (path = "upper" /\ ret = f1)
    /\ FLt[arg1, FNeg[f5]] => (path = "lower" /\ ret = FNeg[f1])
    /\ FLt[FAbs[arg1], f0_5] =>
         (path = "series" /\ ret = TanhSeries[arg1, FMul[arg1, arg1]])
    /\ (FGe[FAbs[arg1], f0_5] /\ FLe[FAbs[arg1], f5]) =>
         (path = "exp" /\ ret = TanhOfExp[exp[FMul[f2, arg1]]])
    /\ InClosed(ret, FNeg[f1], f1)

C21_Witness ==
  /\ pc = "done" /\ fn = "tanh"
  /\ arg1 = FNeg[f5] /\ path = "exp" /\ FLt[ret, zero]

(***************************************************************************)
(* Properties of tan, asin, acos and atan2                                 *)
(***************************************************************************)

\* C14: tan returns the quotient of the library's sin and cos when
\* |cos| >= 1e-7, and otherwise 1e7 when cos >= 0 and -1e7 when cos < 0; the
\* division is reached only with a divisor of magnitude >= 1e-7
C14_TanQuotientOrAsymptote ==
  (pc = "done" /\ fn = "tan") =>
    /\ FGe[FAbs[cos[arg1]], f1em7] =>
         ret = FDiv[sin[arg1], cos[arg1]] /\ path = "quotient"
    /\ (FLt[FAbs[cos[arg1]], f1em7] /\ FGe[cos[arg1], zero]) =>
         ret = f1e7 /\ path = "asymptote"
    /\ (FLt[FAbs[cos[arg1]], f1em7] /\ FLt[cos[arg1], zero]) =>
         ret = FNeg[f1e7] /\ path = "asymptote"
    /\ path = "quotient" => FGe[FAbs[cos[arg1]], f1em7]

C14_Witness ==
  /\ pc = "done" /\ fn = "tan"
  /\ arg1 = half_pi /\ cos[arg1] = zero /\ ret = f1e7

AsinDone == pc = "done" /\ fn = "asin"

\* C15 in the states of a call of asin
AsinClampsAndBound ==
  /\ AsinDone =>
       /\ FGe[arg1, f1] => ret = HalfPiReturn /\ iters = 0
       /\ FLe[arg1, FNeg[f1]] => ret = MinusHalfPiReturn /\ iters = 0
       /\ FLt[FAbs[arg1], f1em7] => ret = zero /\ iters = 0
       /\ iters <= 3
       /\ path = "break" => FLt[FAbs[cos[ret]], f1em7]
       /\ path = "loop_end" => iters = 3
  /\ pc = "asin_loop" => i <= 3 /\ iters = i

\* C15 in the steps of asin's loop: the step that divides by cos_y is taken
\* with |cos_y| >= 1e-7 and i < 3
AsinDividesSafely ==
  (pc = "asin_loop" /\ pc' = "asin_loop") =>
    i < 3 /\ FGe[FAbs[cos[y]], f1em7]

\* C15: asin returns the float of M_PI / 2 for every x >= 1 and that of
\* -M_PI / 2 for every x <= -1, returns 0 for |x| < 1e-7, and otherwise runs
\* at most 3 Newton steps, none of which divides by a cos_y with
\* |cos_y| < 1e-7
C15_AsinClampsAndLoop == []AsinClampsAndBound /\ [][AsinDividesSafely]_vars

C15_Witness ==
  /\ AsinDone
  /\ \/ arg1 = f2 /\ ret = half_pi /\ path = "upper"
     \/ arg1 = f0_5 /\ iters = 3 /\ path = "loop_end"

\* C16: acos(x) is pi/2 - asin(x), so acos(x) is 0 for every x >= 1, pi for
\* every x <= -1 and pi/2 for |x| < 1e-7 (pi and pi/2 the nearest floats)
C16_AcosOfClamps ==
  (pc = "done" /\ fn = "acos") =>
    /\ ret = D2F[DSub[DHalf[M_PI], F2D[asin[arg1]]]]
    /\ FGe[arg1, f1] => ret = zero
    /\ FLe[arg1, FNeg[f1]] => ret = pi
    /\ FLt[FAbs[arg1], f1em7] => ret = half_pi

Atan2Done == pc = "done" /\ fn = "atan2"

\* C17: atan2(y, x) lies in [-pi, pi] and in the closed interval of the
\* quadrant of (x, y), the angle ahead of the adjustment lying in [0, pi/2]
\* (pi and pi/2 the nearest floats, which are above the numbers pi and pi/2)
C17_Atan2Quadrant ==
  Atan2Done =>
    /\ InClosed(ret, FNeg[pi], pi)
    /\ (FGe[arg2, zero] /\ FGe[arg1, zero]) => InClosed(ret, zero, half_pi)
    /\ (FLt[arg2, zero] /\ FGe[arg1, zero]) => InClosed(ret, half_pi, pi)
    /\ (FLt[arg2, zero] /\ FLt[arg1, zero]) =>
         InClosed(ret, FNeg[pi], FNeg[half_pi])
    /\ (FGe[arg2, zero] /\ FLt[arg1, zero]) =>
         InClosed(ret, FNeg[half_pi], zero)
    /\ path = "quotient" =>
         InClosed(Atan2Angle[FAbs[arg1], FAbs[arg2]], zero, half_pi)

\* C28: whenever atan2 divides, the divisor is the larger of |x| and |y|, it
\* is at least 1e-7 and so not zero, and the quotient a lies in [0, 1].
C28_Atan2DivisionSafe ==
  (Atan2Done /\ path = "quotient") =>
    /\ Atan2Divisor[FAbs[arg1], FAbs[arg2]] = Max[FAbs[arg1], FAbs[arg2]]
    /\ FGe[Atan2Divisor[FAbs[arg1], FAbs[arg2]], f1em7]
    /\ Atan2Divisor[FAbs[arg1], FAbs[arg2]] # zero
    /\ InClosed(Atan2A[FAbs[arg1], FAbs[arg2]], zero, f1)

C28_Witness ==
  /\ Atan2Done /\ path = "quotient"
  /\ arg1 = I2F[3] /\ arg2 = f1em7
  /\ Atan2Divisor[FAbs[arg1], FAbs[arg2]] = arg1

\* C18: atan2(y, x) returns 0 when |x| < 1e-7 and |y| < 1e-7, and the float
\* of M_PI / 2 or of -M_PI / 2, by the sign of y, when |x| < 1e-7 and
\* |y| >= 1e-7; both by a return statement ahead of the two divisions
C18_Atan2SpecialCases ==
  Atan2Done =>
    /\ (FLt[FAbs[arg2], f1em7] /\ FLt[FAbs[arg1], f1em7]) =>
         ret = zero /\ path = "origin"
    /\ (FLt[FAbs[arg2], f1em7] /\ FGe[FAbs[arg1], f1em7]) =>
         /\ path = "vertical"
         /\ FGe[arg1, zero] => ret = half_pi
         /\ FLt[arg1, zero] => ret = FNeg[half_pi]

C18_Witness ==
  /\ Atan2Done
  /\ arg2 = zero /\ arg1 = FNeg[f1] /\ ret = FNeg[half_pi]

(***************************************************************************)
(* Concurrent calls: each thread runs one call at a time, a step at a time *)
(***************************************************************************)

\* the 22 functions of the library, and those of two parameters
Functions ==
  {"sin", "cos", "tan", "asin", "acos", "atan2", "sqrt", "exp", "log", "log10",
   "log2", "pow", "fmod", "ceil", "floor", "round", "sinh", "cosh", "tanh",
   "asinh", "acosh", "atanh"}

Binary == {"atan2", "pow", "fmod"}

\* the functions with a loop, which are run one iteration per step
Looping == {"sin", "cos", "asin", "pow"}

\* the value f returns on a and b when it runs alone
Apply(f, a, b) ==
  CASE f = "sin" -> sin[a]
    [] f = "cos" -> cos[a]
    [] f = "tan" -> tan[a]
    [] f = "asin" -> asin[a]
    [] f = "acos" -> acos[a]
    [] f = "atan2" -> atan2[a, b]
    [] f = "sqrt" -> sqrt[a]
    [] f = "exp" -> exp[a]
    [] f = "log" -> log[a]
    [] f = "log10" -> log10[a]
    [] f = "log2" -> log2[a]
    [] f = "pow" -> pow[a, b]
    [] f = "fmod" -> fmod(a, b)
    [] f = "ceil" -> ceil(a)
    [] f = "floor" -> floor(a)
    [] f = "round" -> round(a)
    [] f = "sinh" -> sinh[a]
    [] f = "cosh" -> cosh[a]
    [] f = "tanh" -> tanh[a]
    [] f = "asinh" -> asinh[a]
    [] f = "acosh" -> acosh[a]
    [] f = "atanh" -> atanh[a]

\* the position of a call of f right after its entry: at the head of its
\* loop if it has one to run, else ahead of its straight-line body
EntryPc(f, a, b) ==
  IF f \in {"sin", "cos"} THEN "reduce_up"
  ELSE IF f = "asin" /\ AsinPath[a] = "newton" THEN "asin_loop"
  ELSE IF f = "pow" /\ PowBranch(a, b) = "int_loop" THEN "pow_loop"
  ELSE "body"

\* the locals at that position: theta; y and i; result, current_base, abs_exp
EntryLoc(f, a, b) ==
  IF f \in {"sin", "cos"} THEN <<a, 0, 0>>
  ELSE IF f = "asin" /\ AsinPath[a] = "newton" THEN <<AsinGuess[a], 0, 0>>
  ELSE IF f = "pow" /\ PowBranch(a, b) = "int_loop"
    THEN <<f1, IF FLt[a, zero] THEN FNeg[a] ELSE a, Abs[F2I[b]]>>
  ELSE <<0, 0, 0>>

\* the frame of a call f(a, b) at its entry
Enter(f, a, b) ==
  [pc |-> EntryPc(f, a, b), fn |-> f, a |-> a, b |-> b,
   loc |-> EntryLoc(f, a, b), ret |-> 0]

\* the frame with the call returned
Returned(fr, r) == [fr EXCEPT !.pc = "done", !.ret = r]

\* one step of a call, from its own frame alone: a loop iteration, a loop
\* exit, or the straight-line body up to the return statement
StepFrame(fr) ==
  CASE fr.pc = "reduce_up" ->
         (IF ReduceUpCond[fr.loc[1]]
          THEN [fr EXCEPT !.loc = <<ReduceUpBody[fr.loc[1]], 0, 0>>]
          ELSE [fr EXCEPT !.pc = "reduce_down"])
    [] fr.pc = "reduce_down" ->
         (IF ReduceDownCond[fr.loc[1]]
          THEN [fr EXCEPT !.loc = <<ReduceDownBody[fr.loc[1]], 0, 0>>]
          ELSE Returned(fr, IF fr.fn = "sin" THEN SinPoly[fr.loc[1]]
                            ELSE CosPoly[CosShift[fr.loc[1]]]))
    [] fr.pc = "asin_loop" ->
         (IF AsinContinue[fr.loc[1], fr.loc[2]]
          THEN [fr EXCEPT !.loc = <<AsinNewton[fr.a, fr.loc[1]], fr.loc[2] + 1, 0>>]
          ELSE Returned(fr, fr.loc[1]))
    [] fr.pc = "pow_loop" ->
         (IF fr.loc[3] > 0
          THEN [fr EXCEPT !.loc =
                  <<IF fr.loc[3] % 2 = 1 THEN FMul[fr.loc[1], fr.loc[2]]
                    ELSE fr.loc[1],
                    FMul[fr.loc[2], fr.loc[2]],
                    fr.loc[3] \div 2>>]
          ELSE Returned(fr, IF FLt[fr.a, zero] /\ F2I[fr.b] % 2 = 1
                            THEN FNeg[PowInvert[fr.b, fr.loc[1]]]
                            ELSE PowInvert[fr.b, fr.loc[1]]))
    [] OTHER -> Returned(fr, Apply(fr.fn, fr.a, fr.b))

\* the arguments drawn: two per function with a loop, one per other function
ThreadArgs(f) ==
  IF f \in Looping THEN {<<I2F[-10], I2F[5]>>, <<f0_5, I2F[5]>>}
  ELSE IF f \in Binary THEN {<<f1_5, I2F[5]>>}
  ELSE {<<f1_5, 0>>}

Running(fr) == fr.pc \notin {"idle", "done"}

\* thread t enters f(a, b): the parameters are copied into a new frame
ThreadCall(t, f, a, b) ==
  /\ frames[t].pc = "idle"
  /\ frames' = [frames EXCEPT ![t] = Enter(f, a, b)]
  /\ UNCHANGED <<callVars, trigVars, powVars, iters, testVars, arcVars>>

\* ThreadStep with the locals kept in storage that the running calls of one
\* function share
MutThreadStep(t) ==
  /\ Running(frames[t])
  /\ frames' =
       [u \in Threads |->
          IF u = t THEN StepFrame(frames[t])
          ELSE IF Running(frames[u]) /\ frames[u].fn = frames[t].fn
            THEN [frames[u] EXCEPT !.loc = StepFrame(frames[t]).loc]
          ELSE frames[u]]
  /\ UNCHANGED <<callVars, trigVars, powVars, iters, testVars, arcVars>>

\* thread t takes one step of its call
ThreadStep(t) ==
  /\ Running(frames[t])
  /\ frames' = [frames EXCEPT ![t] = StepFrame(frames[t])]
  /\ UNCHANGED <<callVars, trigVars, powVars, iters, testVars, arcVars>>

\* the caller of thread t takes the returned value; the frame is gone
ThreadReturn(t) ==
  /\ frames[t].pc = "done"
  /\ frames' = [frames EXCEPT ![t] = IdleFrame]
  /\ UNCHANGED <<callVars, trigVars, powVars, iters, testVars, arcVars>>

NextThreads ==
  \/ \E t \in Threads, f \in Functions :
       \E ab \in ThreadArgs(f) : ThreadCall(t, f, ab[1], ab[2])
  \/ \E t \in Threads : ThreadStep(t)
  \/ \E t \in Threads : ThreadReturn(t)

SpecThreads == Init /\ [][NextThreads]_vars

\* every returned call holds the value its function returns when run alone
ReturnsValueOfLoneCall ==
  \A t \in Threads :
    frames[t].pc = "done" =>
      frames[t].ret = Apply(frames[t].fn, frames[t].a, frames[t].b)

\* the frames a frame can move to by its own call alone
OwnSuccessors(fr) ==
  IF fr.pc = "idle"
  THEN UNION {{Enter(f, ab[1], ab[2]) : ab \in ThreadArgs(f)} : f \in Functions}
  ELSE IF fr.pc = "done" THEN {IdleFrame}
  ELSE {StepFrame(fr)}

\* a step changes the frame of one thread, to a frame that depends on that
\* frame alone, and nothing else
TouchesOwnFrameOnly ==
  /\ \A t \in Threads :
       frames'[t] # frames[t] =>
         /\ frames'[t] \in OwnSuccessors(frames[t])
         /\ \A u \in Threads \ {t} : frames'[u] = frames[u]
  /\ UNCHANGED <<callVars, trigVars, powVars, iters, testVars, arcVars>>

Next ==
  \/ NextTrig
  \/ NextTrigTest
  \/ NextPow
  \/ NextFmod
  \/ NextRounding
  \/ NextExpLog
  \/ NextArc
  \/ NextThreads

Spec == Init /\ [][Next]_vars

=============================================================================
